---- MODULE Spec2Model ----
(***************************************************************************)
(* State-machine model of the Snake repository.                            *)
(*                                                                         *)
(* The core of the model is SnakeGameEngine of                             *)
(* SnakeGameProject/core/game_engine.py together with GameSettings and     *)
(* DataManager.  Times are integers in milliseconds (time.time() * 1000),  *)
(* a Point is a record [y, x], a Direction is its enum name, an Optional   *)
(* value is a sequence of length 0 (None) or 1, and a string the code      *)
(* edits character by character (player_name) is a sequence of characters. *)
(***************************************************************************)
EXTENDS Integers, Sequences, FiniteSets, TLC

VARIABLES
    state,              \* SnakeGameEngine.state (GameState value)
    settings,           \* SnakeGameEngine.settings (GameSettings)
    menu_index,
    settings_index,
    field_width,
    field_height,
    snake,              \* list of Point, head first
    food,
    direction,
    next_direction,
    score,
    game_over,
    paused,
    player_name,
    current_session,    \* Optional[GameSession]
    current_speed,
    last_update_time,
    last_speed_increase,
    foods_eaten,
    settings_file,      \* content of snake_settings.json
    scores_file,        \* content of snake_scores.json
    now,                \* the clock read by time.time(), in ms
    ret,                \* what the last handler called returned
    pending,            \* history: the first direction accepted since the last applied tick, "" if none
    placed_ok,          \* history: every place_food of this session found a free cell
    placed_last,        \* history: the last place_food found a free cell
    loaded,             \* history: the last GameSettings.from_dict call, [from, ok, value]
    inserted,           \* history: the scores handed to add_score, in order
    games,              \* history: the number of reset_game calls so far
    disk,               \* environment: what a write to the data directory meets
    attempts,           \* place_food.attempts, when its loop is followed draw by draw
    writers             \* the processes that share the scores file, <<>> when there is one engine

vars == <<state, settings, menu_index, settings_index, field_width, field_height,
          snake, food, direction, next_direction, score, game_over, paused,
          player_name, current_session, current_speed, last_update_time,
          last_speed_increase, foods_eaten, settings_file, scores_file, now,
          ret, pending, placed_ok, placed_last, loaded, inserted, games, disk, attempts, writers>>

\* The variables of one play-through that a tick, a direction input or a
\* pause can touch.
game_vars == <<snake, food, direction, next_direction, score, foods_eaten,
               current_speed, last_update_time, last_speed_increase,
               current_session, state, game_over, paused>>

-----------------------------------------------------------------------------
(* Bounds of the model *)

\* applied ticks per session (caps GameSession.moves_made)
MaxMoves == 4
\* pause toggles per session (caps GameSession.pauses_count)
MaxPauses == 1
\* random food draws that can succeed lie within this distance of the centre
FoodSpread == 1
\* characters typed into the name buffer
MaxTyped == 1
\* add_score calls in SpecLedger
MaxInserts == 52
\* the scores inserted in SpecLedger repeat with this period
ScorePeriod == 3
\* known keys a stored settings mapping may have lost in SpecSettings
MaxDropped == 1
\* fields of a settings record of SpecSettings that differ from the default
MaxChanged == 2
\* applied ticks of a session during which the player still steers, SpecRun
SteerMoves == 2
\* applied ticks per session in SpecRun
MaxRunMoves == 17
\* while no tick can be applied, frames go on until this long after the last tick
MaxIdle == 200

\* settings items that differ from the defaults in SpecNav
MaxAltered == 1
\* pause toggles of one session under SpecPause
MaxToggles == 2
\* ticks of the mobile demo
MaxDemoTicks == 8
\* turns of the main loop of snake_game.py
MaxSimpleTurns == 6

-----------------------------------------------------------------------------
(* Primitives *)

Max(a, b) == IF a >= b THEN a ELSE b
Min(a, b) == IF a <= b THEN a ELSE b
Range(s) == {s[i] : i \in 1..Len(s)}

Directions == {"UP", "DOWN", "LEFT", "RIGHT"}

\* Direction.value: (dy, dx)
Delta(d) ==
    CASE d = "UP" -> [dy |-> -1, dx |-> 0]
      [] d = "DOWN" -> [dy |-> 1, dx |-> 0]
      [] d = "LEFT" -> [dy |-> 0, dx |-> -1]
      [] d = "RIGHT" -> [dy |-> 0, dx |-> 1]

Point(y, x) == [y |-> y, x |-> x]

\* Point.__add__
PointAdd(p, d) == Point(p.y + Delta(d).dy, p.x + Delta(d).dx)

\* the `opposite` table of handle_direction_input
Opposite(d) ==
    CASE d = "UP" -> "DOWN"
      [] d = "DOWN" -> "UP"
      [] d = "LEFT" -> "RIGHT"
      [] d = "RIGHT" -> "LEFT"

\* FIELD_SIZES, in the insertion order of the dict
FieldSizeNames == <<"Small", "Medium", "Large", "Classic">>

FIELD_SIZES ==
    [n \in Range(FieldSizeNames) |->
        CASE n = "Small" -> [width |-> 15, height |-> 10]
          [] n = "Medium" -> [width |-> 20, height |-> 15]
          [] n = "Large" -> [width |-> 30, height |-> 20]
          [] n = "Classic" -> [width |-> 25, height |-> 18]]

-----------------------------------------------------------------------------
(* GameSettings *)

KnownFields == {"initial_speed", "difficulty", "show_grid", "smooth_animation",
                "sound_effects", "theme", "field_size", "timer_mode",
                "auto_speed_increase", "vibration"}

\* GameSettings(): the dataclass defaults
DefaultSettings ==
    [initial_speed |-> 150, difficulty |-> "Medium", show_grid |-> TRUE,
     smooth_animation |-> TRUE, sound_effects |-> FALSE, theme |-> "Classic",
     field_size |-> "Medium", timer_mode |-> TRUE, auto_speed_increase |-> TRUE,
     vibration |-> TRUE]

\* GameSettings.to_dict: asdict(self), a mapping from field name to value
to_dict(s) == [k \in KnownFields |-> s[k]]

\* cls(**kwargs): a keyword that is no field is a TypeError, a missing
\* field takes its default
NewGameSettings(kwargs) ==
    IF DOMAIN kwargs \subseteq KnownFields
    THEN [ok |-> TRUE,
          value |-> [k \in KnownFields |->
                        IF k \in DOMAIN kwargs THEN kwargs[k] ELSE DefaultSettings[k]]]
    ELSE [ok |-> FALSE, value |-> DefaultSettings]

\* mutant: the unknown keys are not filtered out
from_dict_unfiltered(data) == NewGameSettings(data)

\* GameSettings.from_dict: keep the known keys, construct
from_dict(data) ==
    NewGameSettings([k \in (DOMAIN data) \cap KnownFields |-> data[k]])

\* A file is [exists, intact, data]; data is the parsed JSON value.  A file
\* that is not intact holds no JSON document: json.load raises on it.
NoFile == [exists |-> FALSE, intact |-> FALSE, data |-> <<>>]
FileOf(d) == [exists |-> TRUE, intact |-> TRUE, data |-> d]

\* open(path, 'w') empties the file before anything is written
Truncated == [exists |-> TRUE, intact |-> FALSE, data |-> <<>>]

\* What a write can meet: it succeeds ("ok"), open() raises ("denied": no
\* permission, no directory), or the write raises after open() has emptied
\* the file ("full": no space left, I/O error).
DiskStates == {"ok", "denied", "full"}

\* mutant: a write that fails after open() leaves the file as it was
StoredOrKept(file, new) == IF disk = "ok" THEN new ELSE file

\* `with open(file, 'w') as f: json.dump(...)` under `except Exception`:
\* the file after the attempt to write `new` over `file`
Stored(file, new) ==
    IF disk = "ok" THEN new
    ELSE IF disk = "denied" THEN file
    ELSE Truncated

\* DataManager.load_settings: defaults when the file is missing, when
\* json.load raises or when from_dict raises
load_settings(file) ==
    IF file.exists /\ file.intact /\ from_dict(file.data).ok
    THEN from_dict(file.data).value
    ELSE DefaultSettings

\* the record of a from_dict call: its argument and its outcome
FromDictCall(data) ==
    [from |-> data, ok |-> from_dict(data).ok, value |-> from_dict(data).value]

\* the file a DataManager.save_settings that succeeds leaves
save_settings(s) == FileOf(to_dict(s))

-----------------------------------------------------------------------------
(* GameSession and the score ledger (DataManager) *)

\* mutant: the session keeps the dataclass defaults of field_size and difficulty
NewSessionDefaults(t, s) ==
    [start_time |-> t, end_time |-> 0, score |-> 0, foods_eaten |-> 0,
     max_length |-> 3, field_size |-> "Medium", difficulty |-> "Medium",
     moves_made |-> 0, pauses_count |-> 0]

\* GameSession(start_time=..., field_size=..., difficulty=...)
NewSession(t, s) ==
    [start_time |-> t, end_time |-> 0, score |-> 0, foods_eaten |-> 0,
     max_length |-> 3, field_size |-> s.field_size, difficulty |-> s.difficulty,
     moves_made |-> 0, pauses_count |-> 0]

\* GameSession.duration, read at time t: (end_time or time.time()) - start_time
duration(session, t) ==
    (IF session.end_time # 0 THEN session.end_time ELSE t) - session.start_time

Whitespace == {" ", "\t"}
Anonymous == <<"A", "n", "o", "n">>

\* str.strip()
RECURSIVE lstrip(_)
lstrip(name) ==
    IF name # <<>> /\ Head(name) \in Whitespace THEN lstrip(Tail(name)) ELSE name

RECURSIVE rstrip(_)
rstrip(name) ==
    IF name # <<>> /\ name[Len(name)] \in Whitespace
    THEN rstrip(SubSeq(name, 1, Len(name) - 1))
    ELSE name

strip(name) == rstrip(lstrip(name))

\* mutant: an empty name is kept
OrNothing(name) == name

\* `x or "Аноним"`
OrAnonymous(name) == IF name = <<>> THEN Anonymous ELSE name

\* mutant: an element goes before the elements of equal score
RECURSIVE InsertDescBeforeEqual(_, _)
InsertDescBeforeEqual(sorted, e) ==
    IF sorted = <<>> THEN <<e>>
    ELSE IF Head(sorted).score > e.score
         THEN <<Head(sorted)>> \o InsertDescBeforeEqual(Tail(sorted), e)
         ELSE <<e>> \o sorted

\* list.sort(key=score, reverse=True) is stable: an element goes after every
\* element whose score is greater than or equal to its own.
RECURSIVE InsertDesc(_, _)
InsertDesc(sorted, e) ==
    IF sorted = <<>> THEN <<e>>
    ELSE IF Head(sorted).score >= e.score
         THEN <<Head(sorted)>> \o InsertDesc(Tail(sorted), e)
         ELSE <<e>> \o sorted

RECURSIVE SortDesc(_)
SortDesc(list) ==
    IF list = <<>> THEN <<>>
    ELSE InsertDesc(SortDesc(SubSeq(list, 1, Len(list) - 1)), list[Len(list)])

\* the `scores[:50]` of add_score
TopCount == 50

Truncate(list) == SubSeq(list, 1, Min(Len(list), TopCount))

\* the entry built by add_score at time t; efficiency is the fraction
\* score / max(moves_made, 1), kept as <<numerator, denominator>>
ScoreEntry(sc, name, session, t) ==
    [score |-> sc,
     name |-> OrAnonymous(strip(name)),
     timestamp |-> t \div 1000,
     field_size |-> session.field_size,
     difficulty |-> session.difficulty,
     duration |-> duration(session, t),
     foods_eaten |-> session.foods_eaten,
     moves_made |-> session.moves_made,
     efficiency |-> <<sc, Max(session.moves_made, 1)>>]

\* DataManager.load_scores: [] when the file is missing or json.load raises
load_scores(file) == IF file.exists /\ file.intact THEN file.data ELSE <<>>

\* DataManager.add_score: the list it saves and returns
add_score(file, sc, name, session, t) ==
    Truncate(SortDesc(Append(load_scores(file), ScoreEntry(sc, name, session, t))))

-----------------------------------------------------------------------------
(* SnakeGameEngine: construction, reset, food *)

\* a cell of the field: what randint(0, height - 1), randint(0, width - 1) can draw
InField(p, w, h) == p.y \in 0..(h - 1) /\ p.x \in 0..(w - 1)

\* The cells a successful random.randint draw of place_food yields in this
\* model: those of the field within FoodSpread of its centre.
DrawCells(w, h) ==
    {Point(y, x) :
        y \in Max(0, (h \div 2) - FoodSpread)..Min(h - 1, (h \div 2) + FoodSpread),
        x \in Max(0, (w \div 2) - FoodSpread)..Min(w - 1, (w \div 2) + FoodSpread)}

\* mutant: a draw is accepted without looking at the snake
place_food_anywhere(snk, old_food, w, h) ==
    {[food |-> p, ok |-> TRUE] : p \in DrawCells(w, h)}

\* place_food: the first of at most 100 draws that is not on the snake
\* becomes the food; when every draw of the loop lands on the snake (any
\* snake cell can be drawn 100 times) the food stays what it was.
place_food(snk, old_food, w, h) ==
    {[food |-> p, ok |-> TRUE] : p \in DrawCells(w, h) \ Range(snk)}
    \cup (IF \E p \in Range(snk) : InField(p, w, h)
          THEN {[food |-> old_food, ok |-> FALSE]}
          ELSE {})

\* mutant: the preset is not looked up in the settings
calculate_field_dimensions_fixed(s) == FIELD_SIZES[DefaultSettings.field_size]

\* calculate_field_dimensions
calculate_field_dimensions(s) == FIELD_SIZES[s.field_size]

\* FIELD_SIZES[self.settings.field_size] raises KeyError
FieldLookupRaises(s) == s.field_size \notin DOMAIN FIELD_SIZES

\* what an uncaught exception leaves in ret
Errors == {"KeyError", "ValueError"}

\* mutant: the centre is taken with the axes swapped
StartSnakeSwapped(w, h) ==
    <<Point(w \div 2, h \div 2), Point(w \div 2, (h \div 2) - 1),
      Point(w \div 2, (h \div 2) - 2)>>

\* the snake of reset_game: horizontal, head at the centre
StartSnake(w, h) ==
    <<Point(h \div 2, w \div 2), Point(h \div 2, (w \div 2) - 1),
      Point(h \div 2, (w \div 2) - 2)>>

\* SnakeGameEngine.__init__, given the settings file and the scores file
\* found on disk and the record load_settings returned for the former.
\* When calculate_field_dimensions raises, the constructor is left with the
\* field at the 20 x 15 it had just been given and ret tells the error (the
\* later attributes are never assigned; they are given the values they
\* would have had, and no handler can be called on such an engine).
EngineBoot(file, loaded_settings, scores) ==
    /\ settings_file = file
    /\ scores_file = scores
    /\ state = "menu"
    /\ settings = loaded_settings
    /\ menu_index = 0
    /\ settings_index = 0
    /\ field_width = IF FieldLookupRaises(loaded_settings) THEN 20
                     ELSE calculate_field_dimensions(loaded_settings).width
    /\ field_height = IF FieldLookupRaises(loaded_settings) THEN 15
                      ELSE calculate_field_dimensions(loaded_settings).height
    /\ snake = <<>>
    /\ food = Point(0, 0)
    /\ direction = "RIGHT"
    /\ next_direction = "RIGHT"
    /\ score = 0
    /\ game_over = FALSE
    /\ paused = FALSE
    /\ player_name = <<>>
    /\ current_session = <<>>
    /\ current_speed = 150
    /\ last_update_time = 0
    /\ last_speed_increase = 0
    /\ foods_eaten = 0
    /\ now = 1000
    /\ ret = IF FieldLookupRaises(loaded_settings) THEN "KeyError" ELSE "None"
    /\ pending = ""
    /\ placed_ok = TRUE
    /\ placed_last = TRUE
    /\ loaded = FromDictCall(file.data)
    /\ inserted = <<>>
    /\ games = 0
    /\ disk = "ok"
    /\ attempts = 0
    /\ writers = <<>>

\* the same on a disk without a scores file
EngineStart(file, loaded_settings) == EngineBoot(file, loaded_settings, NoFile)

EngineInit(file) == EngineStart(file, load_settings(file))

\* reset_game (everything it assigns; the caller assigns state)
reset_game ==
    LET dims == calculate_field_dimensions(settings)
        body == StartSnake(dims.width, dims.height)
    IN  /\ field_width' = dims.width
        /\ field_height' = dims.height
        /\ snake' = body
        /\ direction' = "RIGHT"
        /\ next_direction' = "RIGHT"
        /\ score' = 0
        /\ game_over' = FALSE
        /\ paused' = FALSE
        /\ foods_eaten' = 0
        /\ current_speed' = settings.initial_speed
        /\ last_speed_increase' = 0
        /\ \E o \in place_food(body, food, dims.width, dims.height) :
              /\ food' = o.food
              /\ placed_ok' = o.ok
              /\ placed_last' = o.ok
        /\ current_session' = <<NewSession(now, settings)>>
        /\ pending' = ""
        /\ games' = games + 1

-----------------------------------------------------------------------------
(* SnakeGameEngine: input handlers *)

\* mutant: the reversal test looks at the queued direction
IsReversalOfQueued(d) == d = Opposite(next_direction)

\* mutant: the reversal test rejects the whole axis of travel
IsReversalOrSame(d) == d = Opposite(direction) \/ d = direction

\* the test `new_direction != opposite[self.direction]`, negated
IsReversal(d) == d = Opposite(direction)

\* mutant: only the end of the game blocks a direction input
InputBlockedWhenOver == game_over

\* the test `self.paused or self.game_over` of handle_direction_input
InputBlocked == paused \/ game_over

\* handle_direction_input
handle_direction_input(d) ==
    /\ IF InputBlocked
       THEN /\ ret' = "False"
            /\ UNCHANGED <<next_direction, pending>>
       ELSE IF ~IsReversal(d)
            THEN /\ next_direction' = d
                 /\ ret' = "True"
                 /\ pending' = (IF pending = "" THEN d ELSE pending)
            ELSE /\ ret' = "False"
                 /\ UNCHANGED <<next_direction, pending>>
    /\ UNCHANGED <<state, settings, menu_index, settings_index, field_width,
                   field_height, snake, food, direction, score, game_over, paused,
                   player_name, current_session, current_speed, last_update_time,
                   last_speed_increase, foods_eaten, settings_file, scores_file,
                   now, placed_ok, placed_last, loaded, inserted, games, disk, attempts, writers>>

\* mutant: the index moves without wrapping around
CycleNoWrap(index, step, count) == index + step

\* (index + step) % count, as Python computes it: the result is in 0..count-1
Cycle(index, step, count) == (index + step) % count

\* handle_menu_navigation
handle_menu_navigation(action) ==
    /\ IF action = "up"
       THEN /\ menu_index' = Cycle(menu_index, -1, 4)
            /\ ret' = "False"
            /\ UNCHANGED <<state, settings_index, field_width, field_height, snake,
                           food, direction, next_direction, score, game_over, paused,
                           current_session, current_speed, last_speed_increase,
                           foods_eaten, pending, placed_ok, placed_last,
                           games, disk, attempts, writers>>
       ELSE IF action = "down"
       THEN /\ menu_index' = Cycle(menu_index, 1, 4)
            /\ ret' = "False"
            /\ UNCHANGED <<state, settings_index, field_width, field_height, snake,
                           food, direction, next_direction, score, game_over, paused,
                           current_session, current_speed, last_speed_increase,
                           foods_eaten, pending, placed_ok, placed_last,
                           games, disk, attempts, writers>>
       ELSE IF action = "select" /\ menu_index = 0
       THEN /\ state' = "playing"
            /\ reset_game
            /\ ret' = "False"
            /\ UNCHANGED <<menu_index, settings_index>>
       ELSE IF action = "select" /\ menu_index = 1
       THEN /\ state' = "settings"
            /\ settings_index' = 0
            /\ ret' = "False"
            /\ UNCHANGED <<menu_index, field_width, field_height, snake, food,
                           direction, next_direction, score, game_over, paused,
                           current_session, current_speed, last_speed_increase,
                           foods_eaten, pending, placed_ok, placed_last,
                           games, disk, attempts, writers>>
       ELSE IF action = "select" /\ menu_index = 2
       THEN /\ state' = "high_scores"
            /\ ret' = "False"
            /\ UNCHANGED <<menu_index, settings_index, field_width, field_height,
                           snake, food, direction, next_direction, score, game_over,
                           paused, current_session, current_speed,
                           last_speed_increase, foods_eaten, pending, placed_ok, placed_last,
                           games, disk, attempts, writers>>
       ELSE /\ ret' = (IF action = "select" /\ menu_index = 3 THEN "True" ELSE "False")
            /\ UNCHANGED <<state, menu_index, settings_index, field_width,
                           field_height, snake, food, direction, next_direction,
                           score, game_over, paused, current_session, current_speed,
                           last_speed_increase, foods_eaten, pending, placed_ok, placed_last,
                           games, disk, attempts, writers>>
    /\ UNCHANGED <<settings, player_name, last_update_time, settings_file,
                   scores_file, now, loaded, inserted, disk, attempts, writers>>

\* list.index(v), counted from 1
IndexOf(list, v) == CHOOSE i \in 1..Len(list) : list[i] = v

\* list[(list.index(v) + 1) % len(list)]: the element after v, cyclically
NextOf(list, v) == list[(IndexOf(list, v) % Len(list)) + 1]

\* max_settings of handle_settings_navigation: the settings and the exit item
max_settings == 9

\* the `difficulties` list and the `speeds` table of handle_settings_navigation
difficulties == <<"Easy", "Medium", "Hard", "Extreme">>

\* mutant: every difficulty has the speed of the defaults
speeds_of_default ==
    [d \in Range(difficulties) |-> 150]

speeds ==
    [d \in Range(difficulties) |->
        CASE d = "Easy" -> 200
          [] d = "Medium" -> 150
          [] d = "Hard" -> 100
          [] d = "Extreme" -> 60]

\* the boolean field that `select` on settings_index 2..7 flips
ToggledField(index) ==
    CASE index = 2 -> "show_grid"
      [] index = 3 -> "smooth_animation"
      [] index = 4 -> "timer_mode"
      [] index = 5 -> "auto_speed_increase"
      [] index = 6 -> "sound_effects"
      [] index = 7 -> "vibration"

\* mutant: `select` on the first item also writes the settings
SelectSavesFirstToo(index) == index = 8 \/ index = 0

\* the test `self.settings_index == 8` of the exit item
SelectSaves(index) == index = 8

\* the settings after `select` on an item
SelectedSettings(s, index) ==
    IF index = 0
    THEN [s EXCEPT !.difficulty = NextOf(difficulties, s.difficulty),
                   !.initial_speed = speeds[NextOf(difficulties, s.difficulty)]]
    ELSE IF index = 1
    THEN [s EXCEPT !.field_size = NextOf(FieldSizeNames, s.field_size)]
    ELSE IF index \in 2..7
    THEN [s EXCEPT ![ToggledField(index)] = ~@]
    ELSE s

\* 'select' raises ValueError: difficulties.index or sizes.index does not
\* find the current value (nothing has been assigned by then)
SelectRaises(s, index) ==
    \/ index = 0 /\ s.difficulty \notin Range(difficulties)
    \/ index = 1 /\ s.field_size \notin Range(FieldSizeNames)

\* handle_settings_navigation
handle_settings_navigation(action) ==
    /\ ret' = IF action = "select" /\ SelectRaises(settings, settings_index)
              THEN "ValueError" ELSE "None"
    /\ IF action = "up"
       THEN /\ settings_index' = Cycle(settings_index, -1, max_settings)
            /\ UNCHANGED <<state, settings, settings_file>>
       ELSE IF action = "down"
       THEN /\ settings_index' = Cycle(settings_index, 1, max_settings)
            /\ UNCHANGED <<state, settings, settings_file>>
       ELSE IF action = "select" /\ SelectRaises(settings, settings_index)
       THEN UNCHANGED <<state, settings, settings_index, settings_file>>
       ELSE IF action = "select"
       THEN /\ settings' = SelectedSettings(settings, settings_index)
            /\ IF SelectSaves(settings_index)
               THEN /\ settings_file' = Stored(settings_file, save_settings(settings))
                    /\ state' = "menu"
               ELSE UNCHANGED <<state, settings_file>>
            /\ UNCHANGED settings_index
       ELSE IF action = "back"
       THEN /\ state' = "menu"
            /\ UNCHANGED <<settings, settings_index, settings_file>>
       ELSE UNCHANGED <<state, settings, settings_index, settings_file>>
    /\ UNCHANGED <<menu_index, field_width, field_height, snake, food, direction,
                   next_direction, score, game_over, paused, player_name,
                   current_session, current_speed, last_update_time,
                   last_speed_increase, foods_eaten, scores_file, now, pending,
                   placed_ok, placed_last, loaded, inserted, games, disk, attempts, writers>>

\* mutant: the state is not looked at
CanPauseAnyState == ~game_over

\* the test `self.state == GameState.PLAYING and not self.game_over`
CanPause == state = "playing" /\ ~game_over

\* toggle_pause
toggle_pause ==
    /\ ret' = "None"
    /\ IF CanPause
       THEN /\ paused' = ~paused
            /\ current_session' =
                 IF current_session # <<>>
                 THEN <<[current_session[1] EXCEPT !.pauses_count = @ + 1]>>
                 ELSE current_session
       ELSE UNCHANGED <<paused, current_session>>
    /\ UNCHANGED <<state, settings, menu_index, settings_index, field_width,
                   field_height, snake, food, direction, next_direction, score,
                   game_over, player_name, current_speed, last_update_time,
                   last_speed_increase, foods_eaten, settings_file, scores_file,
                   now, pending, placed_ok, placed_last, loaded, inserted, games, disk,
                   attempts, writers>>

\* finish_game_session, with self.player_name = name when it is called
\* (everything it assigns)
finish_game_session(name) ==
    /\ IF current_session # <<>>
       THEN LET session == [current_session[1] EXCEPT
                               !.end_time = now,
                               !.score = score,
                               !.foods_eaten = foods_eaten,
                               !.max_length = Len(snake)]
                final_name == OrAnonymous(strip(name))
            IN  /\ current_session' = <<session>>
                /\ scores_file' =
                     Stored(scores_file,
                            FileOf(add_score(scores_file, score, final_name, session, now)))
                /\ inserted' = Append(inserted, score)
       ELSE UNCHANGED <<current_session, scores_file, inserted>>
    /\ player_name' = <<>>
    /\ state' = "menu"

\* max_name_length of __init__
max_name_length == 20

\* str.isprintable() on the characters of the model
Printable == {"a", " "}

\* handle_name_input
handle_name_input(action, char) ==
    /\ ret' = "None"
    /\ IF action = "char" /\ char # ""
       THEN /\ player_name' =
                 IF Len(player_name) < max_name_length /\ char \in Printable
                 THEN Append(player_name, char)
                 ELSE player_name
            /\ UNCHANGED <<state, current_session, scores_file, inserted>>
       ELSE IF action = "backspace"
       THEN /\ player_name' =
                 IF player_name # <<>>
                 THEN SubSeq(player_name, 1, Len(player_name) - 1)
                 ELSE player_name
            /\ UNCHANGED <<state, current_session, scores_file, inserted>>
       ELSE IF action = "enter"
       THEN finish_game_session(player_name)
       ELSE IF action = "skip"
       THEN finish_game_session(Anonymous)
       ELSE UNCHANGED <<state, player_name, current_session, scores_file, inserted>>
    /\ UNCHANGED <<settings, menu_index, settings_index, field_width, field_height,
                   snake, food, direction, next_direction, score, game_over, paused,
                   current_speed, last_update_time, last_speed_increase, foods_eaten,
                   settings_file, now, pending, placed_ok, placed_last, loaded, games, disk,
                   attempts, writers>>

-----------------------------------------------------------------------------
(* SnakeGameEngine: the tick *)

\* mutant: the interval test is skipped
IntervalIgnored(t) == TRUE

\* the interval test of update_game_logic at time t, negated:
\* current_time - last_update_time >= current_speed / 1000.0
IntervalElapsed(t) == t - last_update_time >= current_speed

\* whether a call of update_game_logic at time t gets past its early returns
TickApplies(t) == ~game_over /\ ~paused /\ IntervalElapsed(t)

\* mutant: the bounds check is off by one at the far edges
OutOfFieldOffByOne(p, w, h) == p.y < 0 \/ p.y > h \/ p.x < 0 \/ p.x > w

\* the bounds check on new_head
OutOfField(p, w, h) == p.y < 0 \/ p.y >= h \/ p.x < 0 \/ p.x >= w

\* mutant: the body is not checked at all
HitsSelfNever(p, snk) == FALSE

\* mutant: the tail cell, which the move vacates, is not checked
HitsSelfButTail(p, snk) == p \in Range(SubSeq(snk, 1, Len(snk) - 1))

\* `new_head in self.snake`
HitsSelf(p, snk) == p \in Range(snk)

\* mutant: the tail is never removed
MoveSnakeNeverPop(snk, new_head, eats) == <<new_head>> \o snk

\* mutant: the tail is removed on every move
MoveSnakeAlwaysPop(snk, new_head, eats) ==
    <<new_head>> \o SubSeq(snk, 1, Len(snk) - 1)

\* the snake after a surviving move: insert(0, new_head), and pop() unless
\* the food was eaten
MoveSnake(snk, new_head, eats) ==
    IF eats THEN <<new_head>> \o snk
    ELSE <<new_head>> \o SubSeq(snk, 1, Len(snk) - 1)

\* mutant: a fatal tick forgets to switch the state
OverStateStays == "playing"

\* mutant: a fatal tick assigns GameState.GAME_OVER
OverStateGameOver == "game_over"

\* the state a fatal tick switches to: self.state = GameState.NAME_INPUT
OverState == "name_input"

\* the time-based speed increase is due at time t
RampDue(t) ==
    /\ current_session # <<>>
    /\ settings.timer_mode
    /\ settings.auto_speed_increase
    /\ t - current_session[1].start_time - last_speed_increase >= 30000

\* current_speed after the time-based step
RampedSpeed(t) == IF RampDue(t) THEN Max(50, current_speed - 10) ELSE current_speed

\* mutant: the floor of the food step is left out
FedSpeedNoFloor(speed) == IF settings.auto_speed_increase THEN speed - 3 ELSE speed

\* current_speed after a food, from the speed the tick had so far
FedSpeed(speed) == IF settings.auto_speed_increase THEN Max(40, speed - 3) ELSE speed

\* update_game_logic called at time t
update_game_logic(t) ==
    /\ ret' = "None"
    /\ IF ~TickApplies(t)
       THEN UNCHANGED <<state, snake, food, direction, score, game_over,
                        current_session, current_speed, last_update_time,
                        last_speed_increase, foods_eaten, pending, placed_ok, placed_last>>
       ELSE LET new_head == PointAdd(snake[1], next_direction)
            IN  /\ last_update_time' = t
                /\ current_session' =
                     IF current_session # <<>>
                     THEN <<[current_session[1] EXCEPT !.moves_made = @ + 1]>>
                     ELSE current_session
                /\ last_speed_increase' =
                     IF RampDue(t) THEN t - current_session[1].start_time
                     ELSE last_speed_increase
                /\ direction' = next_direction
                /\ pending' = ""
                /\ IF OutOfField(new_head, field_width, field_height)
                      \/ HitsSelf(new_head, snake)
                   THEN /\ game_over' = TRUE
                        /\ state' = OverState
                        /\ current_speed' = RampedSpeed(t)
                        /\ UNCHANGED <<snake, food, score, foods_eaten, placed_ok, placed_last>>
                   ELSE IF new_head = food
                   THEN /\ snake' = MoveSnake(snake, new_head, TRUE)
                        /\ score' = score + 10
                        /\ foods_eaten' = foods_eaten + 1
                        /\ \E o \in place_food(MoveSnake(snake, new_head, TRUE), food,
                                                field_width, field_height) :
                              /\ food' = o.food
                              /\ placed_ok' = (placed_ok /\ o.ok)
                              /\ placed_last' = o.ok
                        /\ current_speed' = FedSpeed(RampedSpeed(t))
                        /\ UNCHANGED <<state, game_over>>
                   ELSE /\ snake' = MoveSnake(snake, new_head, FALSE)
                        /\ current_speed' = RampedSpeed(t)
                        /\ UNCHANGED <<state, food, score, foods_eaten, game_over,
                                       placed_ok, placed_last>>
    /\ UNCHANGED <<settings, menu_index, settings_index, field_width, field_height,
                   next_direction, paused, player_name, settings_file, scores_file,
                   loaded, inserted, games, disk, attempts, writers>>

\* run_frame at time t: the tick runs in PLAYING only, the rest is drawing
run_frame(t) ==
    IF state = "playing"
    THEN update_game_logic(t)
    ELSE /\ ret' = "None"
         /\ UNCHANGED <<state, settings, menu_index, settings_index, field_width,
                        field_height, snake, food, direction, next_direction, score,
                        game_over, paused, player_name, current_session,
                        current_speed, last_update_time, last_speed_increase,
                        foods_eaten, settings_file, scores_file, pending, placed_ok,
                        placed_last, loaded, inserted, games, disk, attempts, writers>>

-----------------------------------------------------------------------------
(* The driver: inputs routed to the handler of the current state, and the
   frame loop.  A frame reads the clock, which has advanced since the last
   frame, and calls run_frame. *)

MenuInput(action) ==
    /\ state = "menu"
    /\ handle_menu_navigation(action)

DirectionInput(d) ==
    /\ state = "playing"
    /\ handle_direction_input(d)

PauseInput ==
    /\ state = "playing"
    /\ current_session[1].pauses_count < MaxPauses
    /\ toggle_pause

SettingsInput(action) ==
    /\ state = "settings"
    /\ handle_settings_navigation(action)

\* mutant: the name handler is called in every state
NameInputUnrouted(action, char) ==
    /\ action = "char" => Len(player_name) < MaxTyped
    /\ handle_name_input(action, char)

NameInput(action, char) ==
    /\ state = "name_input"
    /\ action = "char" => Len(player_name) < MaxTyped
    /\ handle_name_input(action, char)

Frame(dt, cap) ==
    /\ (state = "playing" /\ TickApplies(now + dt))
       \/ now + dt - last_update_time <= MaxIdle
    /\ (state = "playing" /\ TickApplies(now + dt))
          => current_session[1].moves_made < cap
    /\ now' = now + dt
    /\ run_frame(now + dt)

\* update_game_logic called by the platform layer itself, whatever the
\* state, once a game has been started
DirectTick(cap) ==
    /\ snake # <<>>
    /\ TickApplies(now) => current_session[1].moves_made < cap
    /\ now' = now
    /\ update_game_logic(now)

\* settings files the engine may find at start-up: none, or one it saved
SavedFiles(records) == {NoFile} \cup {save_settings(s) : s \in records}

-----------------------------------------------------------------------------
(* Spec: the first session of an engine started on the Small field, under
   free play without pauses at a steady rate of one frame per 100 ms *)

Init == EngineInit(save_settings([DefaultSettings EXCEPT !.field_size = "Small"]))

Next ==
    \/ \E action \in {"up", "down", "select", "back"} :
          /\ (action = "select" /\ menu_index = 0) => current_session = <<>>
          /\ MenuInput(action)
    \/ \E d \in Directions : DirectionInput(d)
    \/ \E action \in {"char", "backspace", "enter", "skip"}, char \in {"a", " "} :
          NameInput(action, char)
    \/ Frame(100, MaxMoves)

Spec == Init /\ [][Next]_vars

-----------------------------------------------------------------------------
(* SpecName: as Spec, for an engine that finds on disk the scores file of
   earlier runs, holding one entry or the full 50. *)

SmallFile == save_settings([DefaultSettings EXCEPT !.field_size = "Small"])

\* the stored ledger: one game of five moves and one food, finished at 900
EarlierScores ==
    <<ScoreEntry(10, <<"a">>,
                 [NewSession(100, DefaultSettings) EXCEPT
                     !.end_time = 900, !.score = 10, !.foods_eaten = 1,
                     !.max_length = 4, !.moves_made = 5],
                 900)>>

\* a full stored ledger: fifty games of score 10, told apart by their moves
FullScores ==
    [i \in 1..TopCount |->
        ScoreEntry(10, <<"a">>,
                   [NewSession(100, DefaultSettings) EXCEPT
                       !.end_time = 900, !.score = 10, !.foods_eaten = 1,
                       !.max_length = 4, !.moves_made = i],
                   900)]

InitName ==
    \E stored \in {EarlierScores, FullScores} :
        EngineBoot(SmallFile, load_settings(SmallFile), FileOf(stored))

SpecName == InitName /\ [][Next]_vars

-----------------------------------------------------------------------------
(* SpecRun: the first session of an engine, as a long run on any field.
   The player steers and pauses only during the first SteerMoves ticks and
   then lets the snake run, at a steady rate of one frame per 100 ms; the
   platform layer may also call update_game_logic between frames. *)

Steering == current_session # <<>> /\ current_session[1].moves_made < SteerMoves

InitRun ==
    \E file \in SavedFiles({[DefaultSettings EXCEPT !.field_size = n] :
                              n \in {"Small", "Large", "Classic"}}) :
        EngineInit(file)

NextRun ==
    \/ /\ menu_index = 0
       /\ current_session = <<>>
       /\ MenuInput("select")
    \/ \E d \in Directions : Steering /\ DirectionInput(d)
    \/ Steering /\ PauseInput
    \/ \E action \in {"enter", "skip"} : NameInput(action, "")
    \/ Frame(100, MaxRunMoves)
    \/ DirectTick(MaxRunMoves)

SpecRun == InitRun /\ [][NextRun]_vars

-----------------------------------------------------------------------------
(* SpecReset: a long run as under SpecRun, on any field and at several
   speeds, in which a new game may be started from any state of the first
   one.  The second game is started and not played. *)

FirstGame == games = 1

InitReset ==
    \E file \in SavedFiles({[DefaultSettings EXCEPT !.field_size = "Small"],
                             [DefaultSettings EXCEPT !.field_size = "Large"],
                             [DefaultSettings EXCEPT !.field_size = "Classic",
                                                     !.difficulty = "Hard",
                                                     !.initial_speed = speeds["Hard"]]}) :
        EngineInit(file)

NextReset ==
    \/ /\ games = 0
       /\ menu_index = 0
       /\ MenuInput("select")
    \/ /\ FirstGame
       /\ menu_index = 0
       /\ handle_menu_navigation("select")
    \/ \E d \in Directions : FirstGame /\ Steering /\ DirectionInput(d)
    \/ FirstGame /\ Steering /\ PauseInput
    \/ \E action \in {"enter", "skip"} : NameInput(action, "")
    \/ FirstGame /\ Frame(100, MaxRunMoves)

SpecReset == InitReset /\ [][NextReset]_vars

-----------------------------------------------------------------------------
(* SpecPause: a long run as under SpecRun on the Small field, with a player
   who pauses and resumes during the first SteerMoves ticks.  The platform
   layer may also hand a direction to the engine after the game is over and
   toggle the pause in any state.  After the first game a second one is
   started from the menu and not played. *)

NextPause ==
    \/ /\ games <= 1
       /\ menu_index = 0
       /\ MenuInput("select")
    \/ \E d \in Directions : FirstGame /\ Steering /\ DirectionInput(d)
    \/ /\ FirstGame
       /\ Steering
       /\ state = "playing"
       /\ current_session[1].pauses_count < MaxToggles
       /\ toggle_pause
    \/ \E d \in Directions : FirstGame /\ game_over /\ handle_direction_input(d)
    \/ games <= 1 /\ state # "playing" /\ toggle_pause
    \/ \E action \in {"enter", "skip"} : NameInput(action, "")
    \/ FirstGame /\ Frame(100, MaxRunMoves)
    \/ FirstGame /\ DirectTick(MaxRunMoves)

SpecPause == Init /\ [][NextPause]_vars

-----------------------------------------------------------------------------
(* SpecLedger: DataManager.add_score called over and over on an empty
   store.  The i-th call carries a session whose moves_made is i, which
   tells the entries apart; the scores repeat with period ScorePeriod. *)

ScoreInputs == {0, 10, 20}

engine_vars == <<state, settings, menu_index, settings_index, field_width,
                 field_height, snake, food, direction, next_direction, score,
                 game_over, paused, player_name, current_session, current_speed,
                 last_update_time, last_speed_increase, foods_eaten, now, ret,
                 pending, placed_ok, placed_last, games, disk, attempts, writers>>

LedgerInsert(sc) ==
    /\ Len(inserted) < MaxInserts
    /\ Len(inserted) >= ScorePeriod => sc = inserted[Len(inserted) + 1 - ScorePeriod]
    /\ LET session == [NewSession(now, settings) EXCEPT
                           !.moves_made = Len(inserted) + 1]
       IN  scores_file' = FileOf(add_score(scores_file, sc, <<"a">>, session, now))
    /\ inserted' = Append(inserted, sc)
    /\ UNCHANGED <<engine_vars, settings_file, loaded>>

InitLedger == EngineInit(NoFile)

NextLedger == \E sc \in ScoreInputs : LedgerInsert(sc)

SpecLedger == InitLedger /\ [][NextLedger]_vars

-----------------------------------------------------------------------------
(* SpecSettings: a settings record is saved, the stored mapping may lose
   known keys and gain an unknown one (another version of the program
   wrote it), and from_dict reads it back. *)

SettingsValues ==
    [initial_speed : {150, 60}, difficulty : {"Medium", "Extreme"},
     show_grid : BOOLEAN, smooth_animation : BOOLEAN, sound_effects : BOOLEAN,
     theme : {"Classic", "Dark"}, field_size : {"Medium", "Small"},
     timer_mode : BOOLEAN, auto_speed_increase : BOOLEAN, vibration : BOOLEAN]

SettingsInputs ==
    {s \in SettingsValues :
        Cardinality({k \in KnownFields : s[k] # DefaultSettings[k]}) <= MaxChanged}

\* a mapping without key k
Without(data, k) == [j \in (DOMAIN data) \ {k} |-> data[j]]

\* a mapping with one more key
With(data, k, v) == [j \in (DOMAIN data) \cup {k} |-> IF j = k THEN v ELSE data[j]]

SaveSettings ==
    /\ settings_file' = save_settings(settings)
    /\ UNCHANGED <<engine_vars, scores_file, loaded, inserted>>

DropKey(k) ==
    /\ settings_file.exists
    /\ k \in DOMAIN settings_file.data
    /\ Cardinality(KnownFields \ DOMAIN settings_file.data) < MaxDropped
    /\ settings_file' = FileOf(Without(settings_file.data, k))
    /\ UNCHANGED <<engine_vars, scores_file, loaded, inserted>>

AddUnknownKey ==
    /\ settings_file.exists
    /\ settings_file' = FileOf(With(settings_file.data, "language", "ru"))
    /\ UNCHANGED <<engine_vars, scores_file, loaded, inserted>>

ReadSettings ==
    /\ settings_file.exists
    /\ loaded' = FromDictCall(settings_file.data)
    /\ UNCHANGED <<engine_vars, scores_file, settings_file, inserted>>

InitSettings == \E s \in SettingsInputs : EngineStart(NoFile, s)

NextSettings ==
    \/ SaveSettings
    \/ \E k \in KnownFields : DropKey(k)
    \/ AddUnknownKey
    \/ ReadSettings

SpecSettings == InitSettings /\ [][NextSettings]_vars

-----------------------------------------------------------------------------
(* SpecNav: the menu, the settings screen and the high-scores screen of an
   engine started without a settings file.  In MENU and SETTINGS the input
   goes to the handler of the state; the engine has no handler for
   HIGH_SCORES, so there an input may be handed to any of its handlers (of
   the directions UP stands for all, and no character is typed).  Starting
   a game ends the walk. *)

\* the settings items, by settings_index, whose value is not the default
AlteredItems(s) ==
    {i \in 0..7 :
        IF i = 0 THEN s.difficulty # DefaultSettings.difficulty
        ELSE IF i = 1 THEN s.field_size # DefaultSettings.field_size
        ELSE s[ToggledField(i)] # DefaultSettings[ToggledField(i)]}

NavActions == {"up", "down", "select", "back"}

ScoresInput ==
    /\ state = "high_scores"
    /\ \/ \E action \in NavActions : handle_menu_navigation(action)
       \/ \E action \in NavActions : handle_settings_navigation(action)
       \/ handle_direction_input("UP")
       \/ toggle_pause
       \/ \E action \in {"backspace", "enter", "skip"} : handle_name_input(action, "")

InitNav == EngineInit(NoFile)

NextNav ==
    \/ \E action \in NavActions : MenuInput(action)
    \/ \E action \in NavActions :
          /\ SettingsInput(action)
          /\ Cardinality(AlteredItems(settings')) <= MaxAltered
    \/ /\ ScoresInput
       /\ Cardinality(AlteredItems(settings')) <= MaxAltered

SpecNav == InitNav /\ [][NextNav]_vars

-----------------------------------------------------------------------------
(* SpecDisk: the settings screen and then one game on the Small field, the
   snake running straight into the wall, with a data directory that may
   stop taking writes: while the name is entered or the settings screen is
   shown the directory may become unwritable, run full, or recover.  The
   game is played with the settings as they were found, their file being
   as it was found or emptied by a failed save.  The scores file
   found at start-up is absent, not a JSON document, or the one of an
   earlier run. *)

\* the environment: the data directory changes what writes meet
DiskChange(d) ==
    /\ state \in {"name_input", "settings"}
    /\ disk' = d
    /\ UNCHANGED <<state, settings, menu_index, settings_index, field_width,
                   field_height, snake, food, direction, next_direction, score,
                   game_over, paused, player_name, current_session,
                   current_speed, last_update_time, last_speed_increase,
                   foods_eaten, settings_file, scores_file, now, ret, pending,
                   placed_ok, placed_last, loaded, inserted, games, attempts, writers>>

InitDisk ==
    \E stored \in {NoFile, Truncated, FileOf(EarlierScores)} :
        EngineBoot(SmallFile, load_settings(SmallFile), stored)

NextDisk ==
    \/ \E action \in NavActions :
          /\ (action = "select" /\ menu_index = 0) =>
                /\ settings = load_settings(SmallFile)
                /\ settings_file \in {SmallFile, Truncated}
          /\ (action = "select" /\ menu_index \in {0, 1}) => games = 0
          /\ MenuInput(action)
    \/ \E action \in NavActions :
          /\ SettingsInput(action)
          /\ Cardinality(AlteredItems(settings')) <= MaxAltered
    \/ \E action \in {"char", "enter", "skip"} : NameInput(action, "a")
    \/ Frame(100, MaxRunMoves)
    \/ \E d \in DiskStates : DiskChange(d)

SpecDisk == InitDisk /\ [][NextDisk]_vars

-----------------------------------------------------------------------------
(* SpecStored: an engine constructed over a settings file that is a
   well-formed mapping, with a field size and a difficulty that the program
   knows or does not know; then the menu, the settings screen and the first
   ticks of a game.  An exception that leaves a handler ends the program. *)

Running == ret \notin Errors

StoredFiles ==
    {FileOf(to_dict([DefaultSettings EXCEPT !.field_size = f, !.difficulty = d])) :
        f \in {"Medium", "Huge"}, d \in {"Medium", "Insane"}}

InitStored == \E file \in StoredFiles : EngineInit(file)

NextStored ==
    \/ \E action \in NavActions :
          /\ Running
          /\ (action = "select" /\ menu_index = 0) => games = 0
          /\ MenuInput(action)
    \/ \E action \in NavActions :
          /\ Running
          /\ SettingsInput(action)
          /\ Cardinality(AlteredItems(settings')) <= MaxAltered
    \/ Running /\ Frame(100, SteerMoves)

SpecStored == InitStored /\ [][NextStored]_vars

-----------------------------------------------------------------------------
(* SpecApp: the whole application on the Small field, every input going to
   the handler of the current state: the menu, the settings screen (before
   the game), the high-scores screen, one game in which the player steers
   and pauses during the first SteerMoves ticks and then lets the snake
   run, and the name entry.  The game is played with the settings and the
   settings cursor as they were found. *)

InitApp == EngineInit(SmallFile)

NextApp ==
    \/ \E action \in NavActions :
          /\ (action = "select" /\ menu_index = 0) =>
                /\ settings = load_settings(SmallFile)
                /\ settings_file = SmallFile
                /\ settings_index = 0
          /\ (action = "select" /\ menu_index \in {0, 1}) => games = 0
          /\ MenuInput(action)
    \/ \E action \in NavActions :
          /\ SettingsInput(action)
          /\ Cardinality(AlteredItems(settings')) <= MaxAltered
    \/ \E d \in Directions : Steering /\ DirectionInput(d)
    \/ /\ Steering
       /\ state = "playing"
       /\ current_session[1].pauses_count < MaxToggles
       /\ toggle_pause
    \/ \E action \in {"char", "backspace", "enter", "skip"} : NameInput(action, "a")
    \/ Frame(100, MaxRunMoves)

SpecApp == InitApp /\ [][NextApp]_vars

-----------------------------------------------------------------------------
(* SpecFood: the loop of place_food followed draw by draw, for a snake that
   has just been reset, one that leaves a single cell of the field free and
   one that fills the field.  Every cell of the field can be drawn. *)

\* the number of draws the loop of place_food allows
max_attempts == 100

\* mutant: the loop has no bound
WithinAttemptsForEver(n) == TRUE

\* `while attempts < 100`
WithinAttempts(n) == n < max_attempts

\* a snake that covers the whole field, row after row, turning at the walls
Serpentine(w, h) ==
    [i \in 1..(w * h) |->
        LET r == (i - 1) \div w
            c == (i - 1) % w
        IN  Point(r, IF r % 2 = 0 THEN c ELSE w - 1 - c)]

\* the snakes place_food is called on, with the field they live on
FoodCases ==
    {[size |-> "Small", snake |-> StartSnake(15, 10)],
     [size |-> "Classic", snake |-> StartSnake(25, 18)],
     [size |-> "Small", snake |-> SubSeq(Serpentine(15, 10), 1, 149)],
     [size |-> "Small", snake |-> Serpentine(15, 10)]}

\* place_food is entered: by reset_game for the snake of three cells, by
\* the tick that has just eaten the food under the head for the others
InitFood ==
    \E c \in FoodCases :
        /\ state = "playing"
        /\ settings = [DefaultSettings EXCEPT !.field_size = c.size]
        /\ settings_file = save_settings(settings)
        /\ scores_file = NoFile
        /\ menu_index = 0
        /\ settings_index = 0
        /\ field_width = FIELD_SIZES[c.size].width
        /\ field_height = FIELD_SIZES[c.size].height
        /\ snake = c.snake
        /\ food = IF Len(c.snake) = 3 THEN Point(0, 0) ELSE c.snake[1]
        /\ direction = "RIGHT"
        /\ next_direction = "RIGHT"
        /\ score = 10 * (Len(c.snake) - 3)
        /\ foods_eaten = Len(c.snake) - 3
        /\ game_over = FALSE
        /\ paused = FALSE
        /\ player_name = <<>>
        /\ current_session = <<NewSession(1000, settings)>>
        /\ current_speed = settings.initial_speed
        /\ last_update_time = 0
        /\ last_speed_increase = 0
        /\ now = 1000
        /\ ret = "None"
        /\ pending = ""
        /\ placed_ok = TRUE
        /\ placed_last = FALSE
        /\ loaded = FromDictCall(settings_file.data)
        /\ inserted = <<>>
        /\ games = 1
        /\ disk = "ok"
        /\ attempts = 0
        /\ writers = <<>>

\* one turn of the loop, the draw yielding the cell p: a cell off the snake
\* becomes the food and the loop is left, another one counts an attempt
Draw(p) ==
    /\ ~placed_last
    /\ WithinAttempts(attempts)
    /\ IF p \notin Range(snake)
       THEN /\ food' = p
            /\ placed_last' = TRUE
            /\ UNCHANGED attempts
       ELSE /\ attempts' = attempts + 1
            /\ UNCHANGED <<food, placed_last>>
    /\ UNCHANGED <<state, settings, menu_index, settings_index, field_width,
                   field_height, snake, direction, next_direction, score,
                   game_over, paused, player_name, current_session,
                   current_speed, last_update_time, last_speed_increase,
                   foods_eaten, settings_file, scores_file, now, ret, pending,
                   placed_ok, loaded, inserted, games, disk, writers>>

NextFood ==
    \E y \in 0..(field_height - 1), x \in 0..(field_width - 1) : Draw(Point(y, x))

SpecFood == InitFood /\ [][NextFood]_vars /\ WF_vars(NextFood)

-----------------------------------------------------------------------------
(* SpecAlone: a game that is started and then left alone, on each of the
   four fields: no direction input, no pause, and the driver keeps calling
   run_frame, 100 or 200 ms after the frame before. *)

InitAlone ==
    \E file \in SavedFiles({[DefaultSettings EXCEPT !.field_size = n] :
                              n \in Range(FieldSizeNames)}) :
        EngineInit(file)

StartAlone ==
    /\ games = 0
    /\ menu_index = 0
    /\ MenuInput("select")

FrameAlone == \E dt \in {100, 200} : Frame(dt, MaxRunMoves)

NextAlone ==
    \/ StartAlone
    \/ FrameAlone

SpecAlone == InitAlone /\ [][NextAlone]_vars /\ WF_vars(FrameAlone)

-----------------------------------------------------------------------------
(* SpecShared: two processes, each with an engine of its own, share one
   scores file, and each calls DataManager.add_score once.  writers.start
   is the ledger the file held at first and writers.of[w] is what process w
   is doing: pc is its position in add_score, scores its local list and
   entry the entry it adds.  load_scores reads the file in one step;
   save_scores is two steps, open(..., 'w'), which empties the file, and
   json.dump with the close, which fills it. *)

WriterIds == {1, 2}

\* the entry process w adds for a game of score sc, finished at 2000
WriterEntry(w, sc) ==
    ScoreEntry(sc, <<"a">>,
               [NewSession(1000, DefaultSettings) EXCEPT
                   !.end_time = 2000, !.score = sc, !.foods_eaten = sc \div 10,
                   !.max_length = 3 + (sc \div 10), !.moves_made = w],
               2000)

\* add_score between load_scores and save_scores: append, sort, truncate
add_score_local(scores, entry) == Truncate(SortDesc(Append(scores, entry)))

shared_rest ==
    <<state, settings, menu_index, settings_index, field_width, field_height,
      snake, food, direction, next_direction, score, game_over, paused,
      player_name, current_session, current_speed, last_update_time,
      last_speed_increase, foods_eaten, settings_file, now, ret, pending,
      placed_ok, placed_last, loaded, inserted, games, disk, attempts>>

\* scores = self.load_scores(), then the entry is appended, sorted in, cut
writer_load(w) ==
    /\ writers.of[w].pc = "start"
    /\ writers' = [writers EXCEPT
                      !.of[w].pc = "loaded",
                      !.of[w].scores =
                          add_score_local(load_scores(scores_file), writers.of[w].entry)]
    /\ UNCHANGED <<scores_file, shared_rest>>

\* save_scores: open(self.scores_file, 'w')
writer_open(w) ==
    /\ writers.of[w].pc = "loaded"
    /\ writers' = [writers EXCEPT !.of[w].pc = "opened"]
    /\ scores_file' = Truncated
    /\ UNCHANGED shared_rest

\* save_scores: json.dump(scores, f) and the end of the `with` block
writer_dump(w) ==
    /\ writers.of[w].pc = "opened"
    /\ writers' = [writers EXCEPT !.of[w].pc = "done"]
    /\ scores_file' = FileOf(writers.of[w].scores)
    /\ UNCHANGED shared_rest

SharedScores == {0, 10, 20}

InitShared ==
    \E stored \in {NoFile, FileOf(EarlierScores), FileOf(FullScores)},
       s1 \in SharedScores, s2 \in SharedScores :
        /\ scores_file = stored
        /\ writers = [start |-> load_scores(stored),
                      of |-> [w \in WriterIds |->
                                 [pc |-> "start", scores |-> <<>>,
                                  entry |-> WriterEntry(w, IF w = 1 THEN s1 ELSE s2)]]]
        /\ state = "name_input"
        /\ settings = DefaultSettings
        /\ settings_file = NoFile
        /\ menu_index = 0
        /\ settings_index = 0
        /\ field_width = 20
        /\ field_height = 15
        /\ snake = StartSnake(20, 15)
        /\ food = Point(0, 0)
        /\ direction = "RIGHT"
        /\ next_direction = "RIGHT"
        /\ score = 0
        /\ foods_eaten = 0
        /\ game_over = TRUE
        /\ paused = FALSE
        /\ player_name = <<>>
        /\ current_session = <<>>
        /\ current_speed = 150
        /\ last_update_time = 0
        /\ last_speed_increase = 0
        /\ now = 2000
        /\ ret = "None"
        /\ pending = ""
        /\ placed_ok = TRUE
        /\ placed_last = TRUE
        /\ loaded = FromDictCall(<<>>)
        /\ inserted = <<>>
        /\ games = 1
        /\ disk = "ok"
        /\ attempts = 0

NextShared ==
    \/ \E w \in WriterIds : writer_load(w)
    \/ \E w \in WriterIds : writer_open(w)
    \/ \E w \in WriterIds : writer_dump(w)

SpecShared == InitShared /\ [][NextShared]_vars

-----------------------------------------------------------------------------
(* SpecShrink: two games with a visit to the settings in between.  The
   engine finds the Classic field stored; the player lets the snake run
   straight into the wall, confirms the name, may move the field-size
   setting on and starts the second game, which begins with steering and
   pauses. *)

InitShrink ==
    EngineInit(save_settings([DefaultSettings EXCEPT !.field_size = "Classic"]))

NextShrink ==
    \/ \E action \in {"up", "down", "select"} :
          /\ (action = "select" /\ menu_index = 0) => games <= 1
          /\ MenuInput(action)
    \/ settings_index = 0 /\ SettingsInput("down")
    \/ settings_index = 1 /\ games = 1 /\ SettingsInput("select")
    \/ SettingsInput("back")
    \/ NameInput("enter", "")
    \/ \E d \in Directions : games = 2 /\ Steering /\ DirectionInput(d)
    \/ games = 2 /\ Steering /\ PauseInput
    \/ state = "playing" /\ Frame(100, MaxRunMoves)

SpecShrink == InitShrink /\ [][NextShrink]_vars

-----------------------------------------------------------------------------
(* SpecSimpleFood: place_food of snake_game.py (SnakeGame), followed draw by
   draw on the smallest field main() accepts, a terminal of 10 lines and 30
   columns: game_height = 10 - 4 and game_width = 30 - 2.  Every draw
   assigns self.food; placed_last tells that the loop has been left.  Each
   loop goes on while it has not been left, and while a cell is free a draw
   lands on a free cell in the end (random.randint): the fairness of the
   specification. *)

\* the terminal of the model: the smallest that main() lets through
SimpleTerminal == [height |-> 10, width |-> 30]

\* game_height and game_width of SnakeGame.__init__
SimpleField ==
    [height |-> SimpleTerminal.height - 4, width |-> SimpleTerminal.width - 2]

\* the snakes place_food is called on: the snake of reset_game, a snake that
\* leaves one cell free and a snake that has just eaten the last free cell
SimpleFoodCases ==
    {StartSnake(SimpleField.width, SimpleField.height),
     SubSeq(Serpentine(SimpleField.width, SimpleField.height), 1,
            SimpleField.width * SimpleField.height - 1),
     Serpentine(SimpleField.width, SimpleField.height)}

InitSimpleFood ==
    \E body \in SimpleFoodCases :
        /\ state = "playing"
        /\ settings = DefaultSettings
        /\ settings_file = NoFile
        /\ scores_file = NoFile
        /\ menu_index = 0
        /\ settings_index = 0
        /\ field_width = SimpleField.width
        /\ field_height = SimpleField.height
        /\ snake = body
        /\ food = IF Len(body) = 3 THEN Point(0, 0) ELSE body[1]
        /\ direction = "RIGHT"
        /\ next_direction = "RIGHT"
        /\ score = 10 * (Len(body) - 3)
        /\ foods_eaten = Len(body) - 3
        /\ game_over = FALSE
        /\ paused = FALSE
        /\ player_name = <<>>
        /\ current_session = <<>>
        /\ current_speed = 150
        /\ last_update_time = 0
        /\ last_speed_increase = 0
        /\ now = 1000
        /\ ret = "None"
        /\ pending = ""
        /\ placed_ok = TRUE
        /\ placed_last = FALSE
        /\ loaded = FromDictCall(<<>>)
        /\ inserted = <<>>
        /\ games = 1
        /\ disk = "ok"
        /\ attempts = 0
        /\ writers = <<>>

\* `if self.food not in self.snake: break`
simple_accepts(p) == p \notin Range(snake)

\* one turn of `while True`, the draw yielding the cell p
simple_draw(p) ==
    /\ ~placed_last
    /\ food' = p
    /\ placed_last' = simple_accepts(p)
    /\ UNCHANGED <<state, settings, menu_index, settings_index, field_width,
                   field_height, snake, direction, next_direction, score,
                   game_over, paused, player_name, current_session,
                   current_speed, last_update_time, last_speed_increase,
                   foods_eaten, settings_file, scores_file, now, ret, pending,
                   placed_ok, loaded, inserted, games, disk, attempts, writers>>

SimpleCells ==
    {Point(y, x) : y \in 0..(SimpleField.height - 1), x \in 0..(SimpleField.width - 1)}

NextSimpleFood == \E p \in SimpleCells : simple_draw(p)

\* a draw that lands off the snake
SimpleFreeDraw == \E p \in SimpleCells \ Range(snake) : simple_draw(p)

SpecSimpleFood ==
    /\ InitSimpleFood
    /\ [][NextSimpleFood]_vars
    /\ WF_vars(NextSimpleFood)
    /\ WF_vars(SimpleFreeDraw)

-----------------------------------------------------------------------------
(* SpecSimple: the game of snake_game.py (SnakeGame) on the field of
   SimpleField, on the variables snake, food, direction, score, game_over
   and current_speed, which is the delay of the input timeout of the window
   (stdscr.timeout) in milliseconds; games counts the calls of reset_game
   and now the turns of the main loop.  place_food is taken as a whole: it
   yields a free cell (of those within FoodSpread of the centre). *)

\* what window.timeout(delay) of curses returns: it sets the delay and
\* returns nothing
window_timeout_returns == "None"

\* current_timeout of update_game: `self.stdscr.timeout(-1)`, replaced by
\* 150 `if current_timeout is None`
simple_current_timeout(delay) ==
    IF window_timeout_returns = "None" THEN 150 ELSE window_timeout_returns

\* new_timeout of update_game
simple_new_timeout(delay) == Max(50, simple_current_timeout(delay) - 2)

simple_place_food(snk) == DrawCells(field_width, field_height) \ Range(snk)

simple_rest ==
    <<state, settings, menu_index, settings_index, field_width, field_height,
      next_direction, paused, player_name, current_session, last_update_time,
      last_speed_increase, foods_eaten, settings_file, scores_file, ret,
      pending, placed_ok, placed_last, loaded, inserted, disk, attempts, writers>>

\* SnakeGame.reset_game
simple_reset_game ==
    /\ snake' = StartSnake(field_width, field_height)
    /\ direction' = "RIGHT"
    /\ score' = 0
    /\ game_over' = FALSE
    /\ food' \in simple_place_food(StartSnake(field_width, field_height))
    /\ games' = games + 1

\* the direction after get_input has read the key
simple_steered(key) ==
    IF key \in Directions /\ key # Opposite(direction) THEN key ELSE direction

\* SnakeGame.update_game, moving in direction d
simple_update_game(d) ==
    LET new_head == PointAdd(snake[1], d)
    IN  IF ~InField(new_head, field_width, field_height) \/ new_head \in Range(snake)
        THEN /\ game_over' = TRUE
             /\ UNCHANGED <<snake, food, score, current_speed>>
        ELSE /\ game_over' = FALSE
             /\ IF new_head = food
                THEN /\ snake' = <<new_head>> \o snake
                     /\ score' = score + 10
                     /\ food' \in simple_place_food(<<new_head>> \o snake)
                     /\ current_speed' = simple_new_timeout(current_speed)
                ELSE /\ snake' = <<new_head>> \o SubSeq(snake, 1, Len(snake) - 1)
                     /\ UNCHANGED <<food, score, current_speed>>

\* one turn of the loop of SnakeGame.run: draw, get_input, then reset_game
\* or update_game ("none": the timeout ran out with no key pressed)
simple_turn(key) ==
    /\ now < MaxSimpleTurns
    /\ now' = now + 1
    /\ IF game_over /\ key = "r"
       THEN /\ simple_reset_game
            /\ current_speed' = 150
       ELSE IF game_over
       THEN UNCHANGED <<snake, food, direction, score, game_over, current_speed, games>>
       ELSE /\ direction' = simple_steered(key)
            /\ simple_update_game(simple_steered(key))
            /\ UNCHANGED games
    /\ UNCHANGED simple_rest

SimpleKeys == Directions \cup {"r", "none"}

\* SnakeGame.__init__: reset_game, then stdscr.timeout(150)
InitSimple ==
    /\ field_width = SimpleField.width
    /\ field_height = SimpleField.height
    /\ snake = StartSnake(SimpleField.width, SimpleField.height)
    /\ direction = "RIGHT"
    /\ score = 0
    /\ game_over = FALSE
    /\ food \in DrawCells(SimpleField.width, SimpleField.height)
                  \ Range(StartSnake(SimpleField.width, SimpleField.height))
    /\ current_speed = 150
    /\ games = 1
    /\ now = 0
    /\ state = "playing"
    /\ settings = DefaultSettings
    /\ settings_file = NoFile
    /\ scores_file = NoFile
    /\ menu_index = 0
    /\ settings_index = 0
    /\ next_direction = "RIGHT"
    /\ foods_eaten = 0
    /\ paused = FALSE
    /\ player_name = <<>>
    /\ current_session = <<>>
    /\ last_update_time = 0
    /\ last_speed_increase = 0
    /\ ret = "None"
    /\ pending = ""
    /\ placed_ok = TRUE
    /\ placed_last = TRUE
    /\ loaded = FromDictCall(<<>>)
    /\ inserted = <<>>
    /\ disk = "ok"
    /\ attempts = 0
    /\ writers = <<>>

NextSimple == \E key \in SimpleKeys : simple_turn(key)

SpecSimple == InitSimple /\ [][NextSimple]_vars

-----------------------------------------------------------------------------
(* SpecModern: the settings of modern_snake.py (GameSettings and the
   load_settings and save_settings of ModernSnakeGame), on the variables
   settings and settings_file.  The game holds some settings record, saves
   it, the file may gain a key the program does not know, and the program
   is started again, which loads the file. *)

ModernFields == {"initial_speed", "difficulty", "show_grid", "smooth_animation",
                 "sound_effects", "theme", "field_size", "timer_mode"}

\* GameSettings() of modern_snake.py
ModernDefaultSettings ==
    [initial_speed |-> 120, difficulty |-> "Medium", show_grid |-> TRUE,
     smooth_animation |-> TRUE, sound_effects |-> FALSE, theme |-> "Classic",
     field_size |-> "Medium", timer_mode |-> TRUE]

\* the keys GameSettings.to_dict writes
modern_saved_fields ==
    {"initial_speed", "difficulty", "show_grid", "smooth_animation",
     "sound_effects", "theme"}

modern_to_dict(s) == [k \in modern_saved_fields |-> s[k]]

\* GameSettings.from_dict: cls(**data); a keyword that is no field is a
\* TypeError, a missing field takes its default
modern_from_dict(data) ==
    IF DOMAIN data \subseteq ModernFields
    THEN [ok |-> TRUE,
          value |-> [k \in ModernFields |->
                        IF k \in DOMAIN data THEN data[k] ELSE ModernDefaultSettings[k]]]
    ELSE [ok |-> FALSE, value |-> ModernDefaultSettings]

\* ModernSnakeGame.load_settings: GameSettings() when the file is missing or
\* anything raises (`except: pass`)
modern_load_settings(file) ==
    IF file.exists /\ file.intact /\ modern_from_dict(file.data).ok
    THEN modern_from_dict(file.data).value
    ELSE ModernDefaultSettings

modern_rest ==
    <<state, menu_index, settings_index, field_width, field_height, snake, food,
      direction, next_direction, score, game_over, paused, player_name,
      current_session, current_speed, last_update_time, last_speed_increase,
      foods_eaten, scores_file, now, ret, pending, placed_ok, placed_last,
      loaded, inserted, games, disk, attempts, writers>>

\* ModernSnakeGame.save_settings
modern_save_settings ==
    /\ settings_file' = FileOf(modern_to_dict(settings))
    /\ UNCHANGED <<settings, modern_rest>>

\* another version of the program adds a key to the file
ModernAddUnknownKey ==
    /\ settings_file.exists
    /\ settings_file' = FileOf(With(settings_file.data, "language", "ru"))
    /\ UNCHANGED <<settings, modern_rest>>

\* the program is started again: __init__ loads the settings
ModernStart ==
    /\ settings' = modern_load_settings(settings_file)
    /\ UNCHANGED <<settings_file, modern_rest>>

ModernSettingsValues ==
    [initial_speed : {120, 60}, difficulty : {"Medium", "Hard"},
     show_grid : BOOLEAN, smooth_animation : BOOLEAN, sound_effects : BOOLEAN,
     theme : {"Classic", "Neon"}, field_size : {"Medium", "Small"},
     timer_mode : BOOLEAN]

InitModern == \E s \in ModernSettingsValues : EngineBoot(NoFile, s, NoFile)

NextModern ==
    \/ modern_save_settings
    \/ ModernAddUnknownKey
    \/ ModernStart

SpecModern == InitModern /\ [][NextModern]_vars

-----------------------------------------------------------------------------
(* The settings screen of snake_premium.py (PremiumSnakeGame), on the
   variables state, settings, menu_index, settings_index and settings_file;
   the variables of the game itself keep the values they start with.  *)

\* GameSettings() of snake_premium.py
PremiumDefaultSettings ==
    [initial_speed |-> 120, difficulty |-> "Medium", show_grid |-> TRUE,
     smooth_animation |-> TRUE, sound_effects |-> FALSE, theme |-> "Classic",
     field_size |-> "Medium", timer_mode |-> TRUE, auto_speed_increase |-> TRUE]

\* max_settings of handle_settings_input
premium_max_settings == 8

\* the index of the save-and-leave item in the settings_items list that
\* draw_settings shows (the item before it is an empty line)
PremiumSaveItem == 8

\* the `speeds` table and the `themes` list of handle_settings_input
premium_speeds ==
    [d \in Range(difficulties) |->
        CASE d = "Easy" -> 150
          [] d = "Medium" -> 120
          [] d = "Hard" -> 80
          [] d = "Extreme" -> 50]

themes == <<"Classic", "Modern", "Retro", "Neon">>

\* the settings after Enter on an item
PremiumSelectedSettings(s, index) ==
    CASE index = 0 ->
           [s EXCEPT !.difficulty = NextOf(difficulties, s.difficulty),
                     !.initial_speed = premium_speeds[NextOf(difficulties, s.difficulty)]]
      [] index = 1 -> [s EXCEPT !.field_size = NextOf(FieldSizeNames, s.field_size)]
      [] index = 2 -> [s EXCEPT !.show_grid = ~@]
      [] index = 3 -> [s EXCEPT !.smooth_animation = ~@]
      [] index = 4 -> [s EXCEPT !.timer_mode = ~@]
      [] index = 5 -> [s EXCEPT !.auto_speed_increase = ~@]
      [] index = 6 -> [s EXCEPT !.theme = NextOf(themes, s.theme)]
      [] OTHER -> s

\* the variables the menus of snake_premium.py do not touch
premium_rest ==
    <<field_width, field_height, snake, food, direction, next_direction, score,
      game_over, paused, player_name, current_session, current_speed,
      last_update_time, last_speed_increase, foods_eaten, scores_file, now,
      pending, placed_ok, placed_last, loaded, inserted, games, disk, attempts, writers>>

\* PremiumSnakeGame.handle_settings_input; save_settings writes
\* settings.to_dict(), every field of the record
premium_handle_settings_input(key) ==
    /\ ret' = "None"
    /\ IF key = "up"
       THEN /\ settings_index' = Cycle(settings_index, -1, premium_max_settings)
            /\ UNCHANGED <<state, settings, settings_file>>
       ELSE IF key = "down"
       THEN /\ settings_index' = Cycle(settings_index, 1, premium_max_settings)
            /\ UNCHANGED <<state, settings, settings_file>>
       ELSE IF key = "enter"
       THEN /\ settings' = PremiumSelectedSettings(settings, settings_index)
            /\ IF settings_index = 8
               THEN /\ settings_file' = FileOf(settings)
                    /\ state' = "menu"
               ELSE UNCHANGED <<state, settings_file>>
            /\ UNCHANGED settings_index
       ELSE IF key = "escape"
       THEN /\ state' = "menu"
            /\ UNCHANGED <<settings, settings_index, settings_file>>
       ELSE UNCHANGED <<state, settings, settings_index, settings_file>>
    /\ UNCHANGED <<menu_index, premium_rest>>

\* PremiumSnakeGame.handle_menu_input, for every key and item but Enter on
\* the first item, which starts a game
premium_handle_menu_input(key) ==
    /\ ~(key = "enter" /\ menu_index = 0)
    /\ IF key = "up"
       THEN /\ menu_index' = Cycle(menu_index, -1, 4)
            /\ ret' = "False"
            /\ UNCHANGED <<state, settings_index>>
       ELSE IF key = "down"
       THEN /\ menu_index' = Cycle(menu_index, 1, 4)
            /\ ret' = "False"
            /\ UNCHANGED <<state, settings_index>>
       ELSE IF key = "enter" /\ menu_index = 1
       THEN /\ state' = "settings"
            /\ settings_index' = 0
            /\ ret' = "False"
            /\ UNCHANGED menu_index
       ELSE IF key = "enter" /\ menu_index = 2
       THEN /\ state' = "high_scores"
            /\ ret' = "False"
            /\ UNCHANGED <<menu_index, settings_index>>
       ELSE /\ ret' = (IF key = "enter" /\ menu_index = 3 THEN "True" ELSE "False")
            /\ UNCHANGED <<state, menu_index, settings_index>>
    /\ UNCHANGED <<settings, settings_file, premium_rest>>

\* the branch of PremiumSnakeGame.run for HIGH_SCORES: any key leads back
premium_scores_key ==
    /\ state' = "menu"
    /\ ret' = "None"
    /\ UNCHANGED <<settings, menu_index, settings_index, settings_file, premium_rest>>

\* run: the key read goes to the handler of the state
PremiumMenuKey(key) == state = "menu" /\ premium_handle_menu_input(key)
PremiumSettingsKey(key) == state = "settings" /\ premium_handle_settings_input(key)
PremiumScoresKey == state = "high_scores" /\ premium_scores_key

(* SpecPremium: a player who, on the settings screen, walks down the list
   and presses Enter on items, and never stops pressing keys. *)

InitPremium == EngineBoot(NoFile, PremiumDefaultSettings, NoFile)

NextPremium ==
    \/ \E key \in {"up", "down", "enter"} : PremiumMenuKey(key)
    \/ PremiumSettingsKey("down")
    \/ PremiumSettingsKey("enter")
    \/ PremiumScoresKey

SpecPremium ==
    /\ InitPremium
    /\ [][NextPremium]_vars
    /\ WF_vars(PremiumSettingsKey("down"))

-----------------------------------------------------------------------------
(* SpecBound: the settings screen of either program, the core engine or
   snake_premium.py, started without a settings file and hence with the
   defaults of its own GameSettings.  The player walks the main menu and the
   settings list with every key the screens have; no game is started, and
   the core engine's settings are saved while its switches are at their
   defaults.  Only
   the core engine's GameSettings has the field `vibration`, which tells the
   two programs apart. *)

IsPremium == "vibration" \notin DOMAIN settings

\* the settings items 2..7 of the core engine (the switches) that are not at
\* their defaults
AlteredSwitches(s) == AlteredItems(s) \ {0, 1}

InitBound ==
    \/ EngineInit(NoFile)
    \/ InitPremium

NextBound ==
    \/ \E action \in NavActions :
          /\ ~IsPremium
          /\ ~(action = "select" /\ menu_index = 0)
          /\ MenuInput(action)
    \/ \E action \in NavActions :
          /\ ~IsPremium
          /\ (action = "select" /\ settings_index = 8) => AlteredSwitches(settings) = {}
          /\ SettingsInput(action)
          /\ Cardinality(AlteredSwitches(settings')) <= MaxAltered
    \/ /\ ~IsPremium
       /\ state = "high_scores"
       /\ handle_menu_navigation("back")
    \/ \E key \in {"up", "down", "enter", "escape"} :
          /\ IsPremium
          /\ PremiumMenuKey(key)
    \/ \E key \in {"up", "down", "enter", "escape"} :
          /\ IsPremium
          /\ PremiumSettingsKey(key)
    \/ /\ IsPremium
       /\ PremiumScoresKey

SpecBound == InitBound /\ [][NextBound]_vars

-----------------------------------------------------------------------------
(* SpecSpeed: the first session on the Small field at each of the four
   difficulties, steered with at most one accepted direction per tick.  A
   frame comes 200 ms after the one before, or after a stall of 30 s (the
   program was suspended), so every frame of a running game applies a tick
   and a stalled one also takes the time-based speed step. *)

DifficultyFiles ==
    {save_settings([DefaultSettings EXCEPT !.field_size = "Small",
                                           !.difficulty = d,
                                           !.initial_speed = speeds[d]]) :
        d \in Range(difficulties)}

InitSpeed == \E file \in DifficultyFiles : EngineInit(file)

NextSpeed ==
    \/ /\ games = 0
       /\ menu_index = 0
       /\ MenuInput("select")
    \/ \E d \in Directions : pending = "" /\ DirectionInput(d)
    \/ Frame(200, MaxMoves)
    \/ Frame(30000, MaxMoves)

SpecSpeed == InitSpeed /\ [][NextSpeed]_vars

-----------------------------------------------------------------------------
(* The mobile demo (SnakeGameWidget of android/main_demo.py), on the
   variables snake, food, direction, field_width and field_height; games
   counts the calls of its reset_game and now is the clock of the Kivy
   scheduler, which calls update_game every 0.5 s.  A cell (x, y) of the
   demo is the Point [y, x]; 'up' adds 1 to y.  The other variables keep
   the values they start with. *)

DemoDirections == {"up", "down", "left", "right"}

\* the `opposites` of change_direction
DemoOpposite(d) ==
    CASE d = "up" -> "down"
      [] d = "down" -> "up"
      [] d = "left" -> "right"
      [] d = "right" -> "left"

\* the snake of __init__ and reset_game: [(5, 5), (4, 5), (3, 5)]
DemoStart == <<Point(5, 5), Point(5, 4), Point(5, 3)>>

\* mutant: the position is not taken modulo the size of the field
NoWrap(v, n) == v

\* `head_x % self.field_width`: Python's %, never negative for n > 0
Wrap(v, n) == v % n

\* the head moved one cell in direction d, before the wrap
DemoMoved(p, d) ==
    CASE d = "up" -> Point(p.y + 1, p.x)
      [] d = "down" -> Point(p.y - 1, p.x)
      [] d = "left" -> Point(p.y, p.x - 1)
      [] d = "right" -> Point(p.y, p.x + 1)

\* new_head of update_game
DemoNewHead ==
    LET m == DemoMoved(snake[1], direction)
    IN  Point(Wrap(m.y, field_height), Wrap(m.x, field_width))

\* spawn_food: draws until a cell off the snake comes (the draws of the
\* model lie within FoodSpread of the centre of the field)
demo_spawn_food(snk) == DrawCells(field_width, field_height) \ Range(snk)

demo_rest ==
    <<state, settings, menu_index, settings_index, field_width, field_height,
      next_direction, score, game_over, paused, player_name, current_session,
      current_speed, last_update_time, last_speed_increase, foods_eaten,
      settings_file, scores_file, ret, pending, placed_ok, placed_last,
      loaded, inserted, disk, attempts, writers>>

\* SnakeGameWidget.reset_game
demo_reset_game ==
    /\ snake' = DemoStart
    /\ direction' = "right"
    /\ food' \in demo_spawn_food(DemoStart)
    /\ games' = games + 1

\* SnakeGameWidget.update_game
demo_update_game ==
    /\ IF DemoNewHead \in Range(snake)
       THEN demo_reset_game
       ELSE /\ IF DemoNewHead = food
               THEN /\ snake' = <<DemoNewHead>> \o snake
                    /\ food' \in demo_spawn_food(<<DemoNewHead>> \o snake)
               ELSE /\ snake' = <<DemoNewHead>> \o SubSeq(snake, 1, Len(snake) - 1)
                    /\ food' = food
            /\ UNCHANGED <<direction, games>>
    /\ UNCHANGED demo_rest

\* the test of change_direction, negated: opposites.get(new_direction) == self.direction
demo_reversal(d) == DemoOpposite(d) = direction

\* SnakeGameWidget.change_direction
demo_change_direction(d) ==
    /\ direction' = IF demo_reversal(d) THEN direction ELSE d
    /\ UNCHANGED <<snake, food, games, now>>
    /\ UNCHANGED demo_rest

\* the scheduler fires
DemoTick ==
    /\ now < 1000 + 500 * MaxDemoTicks
    /\ now' = now + 500
    /\ demo_update_game

\* SnakeGameWidget.__init__
InitDemo ==
    /\ snake = DemoStart
    /\ food = Point(10, 10)
    /\ direction = "right"
    /\ field_width = 20
    /\ field_height = 15
    /\ games = 0
    /\ now = 1000
    /\ state = "playing"
    /\ settings = DefaultSettings
    /\ settings_file = NoFile
    /\ scores_file = NoFile
    /\ menu_index = 0
    /\ settings_index = 0
    /\ next_direction = "right"
    /\ score = 0
    /\ foods_eaten = 0
    /\ game_over = FALSE
    /\ paused = FALSE
    /\ player_name = <<>>
    /\ current_session = <<>>
    /\ current_speed = 500
    /\ last_update_time = 0
    /\ last_speed_increase = 0
    /\ ret = "None"
    /\ pending = ""
    /\ placed_ok = TRUE
    /\ placed_last = TRUE
    /\ loaded = FromDictCall(<<>>)
    /\ inserted = <<>>
    /\ disk = "ok"
    /\ attempts = 0
    /\ writers = <<>>

NextDemo ==
    \/ \E d \in DemoDirections : demo_change_direction(d)
    \/ DemoTick

SpecDemo == InitDemo /\ [][NextDemo]_vars

-----------------------------------------------------------------------------
(* Steps and cells the properties speak about *)

\* a step on which update_game_logic got past its early returns: only such
\* a step counts a move of the session
AppliedTick ==
    /\ current_session # <<>>
    /\ current_session' # <<>>
    /\ current_session'[1].moves_made = current_session[1].moves_made + 1

\* the cell the next applied tick moves the head to
NextHead == PointAdd(snake[1], next_direction)

\* the head is on an edge of the field and the direction to apply leaves it
HeadsOutward ==
    \/ snake[1].y = 0 /\ next_direction = "UP"
    \/ snake[1].y = field_height - 1 /\ next_direction = "DOWN"
    \/ snake[1].x = 0 /\ next_direction = "LEFT"
    \/ snake[1].x = field_width - 1 /\ next_direction = "RIGHT"

-----------------------------------------------------------------------------
(* Properties *)

\* C1: an applied tick of a snake whose head is on an edge of the field,
\* with the direction to apply pointing out of the field, sets game_over
\* and leaves the snake body as it was (every preset, every edge).
C1_BoundaryCollision ==
    [][(AppliedTick /\ HeadsOutward) => (game_over' /\ snake' = snake)]_vars

\* C1 witness: on the Large field the snake has died on the left edge
\* heading LEFT, its head still on column 0.
C1_Witness ==
    /\ settings.field_size = "Large"
    /\ field_width = 30
    /\ game_over
    /\ snake[1].x = 0
    /\ direction = "LEFT"

\* C2: an applied tick whose new head cell is a cell of the body before the
\* move, at index >= 1 and the tail included, sets game_over and leaves the
\* snake as it was.
C2_SelfCollision ==
    [][(AppliedTick /\ \E i \in 2..Len(snake) : snake[i] = NextHead)
          => (game_over' /\ snake' = snake)]_vars

\* C2 witness: the snake has died on its own tail cell.
C2_Witness ==
    /\ game_over
    /\ Len(snake) >= 4
    /\ PointAdd(snake[1], direction) = snake[Len(snake)]

\* C3: an applied tick the snake survives either eats (the new head is the
\* food: the snake is the old one with the head prepended, score + 10,
\* foods_eaten + 1) or does not (head prepended, tail removed, score and
\* foods_eaten unchanged).
C3_GrowthLaw ==
    [][(AppliedTick /\ ~game_over') =>
          IF NextHead = food
          THEN /\ snake' = <<NextHead>> \o snake
               /\ Len(snake') = Len(snake) + 1
               /\ score' = score + 10
               /\ foods_eaten' = foods_eaten + 1
          ELSE /\ snake' = <<NextHead>> \o SubSeq(snake, 1, Len(snake) - 1)
               /\ Len(snake') = Len(snake)
               /\ score' = score
               /\ foods_eaten' = foods_eaten]_vars

\* C3 witness: two foods eaten, then a move without food.
C3_Witness ==
    /\ state = "playing"
    /\ foods_eaten = 2
    /\ score = 20
    /\ Len(snake) = 5
    /\ current_session[1].moves_made = 3

\* C4: a request for the opposite of the applied direction returns False
\* and leaves next_direction alone, whatever was requested before it; so
\* next_direction is never the opposite of direction, and an applied tick
\* neither reverses the applied direction nor moves the head onto the
\* second segment.
C4_ReversalRejected ==
    [][/\ \A d \in Directions :
             (handle_direction_input(d) /\ d = Opposite(direction))
                => (ret' = "False" /\ next_direction' = next_direction)
       /\ next_direction' # Opposite(direction')
       /\ AppliedTick =>
             /\ direction' # Opposite(direction)
             /\ PointAdd(snake[1], direction') # snake[2]]_vars

\* C4 witness: in one tick interval a direction was accepted and a later
\* request (the reversal) was refused.
C4_Witness ==
    /\ state = "playing"
    /\ ~game_over
    /\ pending # ""
    /\ ret = "False"
    /\ current_session[1].moves_made >= 1

\* C5 as stated: every accepted direction is the one the next applied tick
\* uses (so also the first of several accepted in one interval).
C5_Original ==
    [][(AppliedTick /\ pending # "") => direction' = pending]_vars

\* C5 amended: while neither paused nor over, a request d that is not the
\* opposite of the applied direction returns True and becomes
\* next_direction; an applied tick uses next_direction, that is the last
\* direction accepted before it.
C5_LastAcceptedApplies ==
    [][/\ \A d \in Directions :
             (handle_direction_input(d) /\ ~paused /\ ~game_over
                 /\ d # Opposite(direction))
                => (ret' = "True" /\ next_direction' = d)
       /\ AppliedTick => direction' = next_direction]_vars

\* C5 witness: after a tick, UP was accepted and then DOWN was accepted in
\* its place.
C5_Witness ==
    /\ state = "playing"
    /\ current_session[1].moves_made = 1
    /\ direction = "RIGHT"
    /\ pending = "UP"
    /\ next_direction = "DOWN"
    /\ ret = "True"

\* a step that calls place_food: reset_game, or a tick that eats
PlacementStep ==
    \/ state = "menu" /\ state' = "playing"
    \/ foods_eaten' = foods_eaten + 1

\* C6: right after a place_food that found a free cell within its 100
\* draws the food is not on the snake, and as long as every placement of
\* the session has found one the food is on no snake cell in any state.
C6_FoodOffSnake ==
    /\ [](placed_ok => food \notin Range(snake))
    /\ [][(PlacementStep /\ placed_last') => food' \notin Range(snake')]_vars

\* C6 witness: two foods eaten, each followed by a placement that found a
\* free cell.
C6_Witness ==
    /\ state = "playing"
    /\ foods_eaten = 2
    /\ placed_ok
    /\ placed_last
    /\ food \notin Range(snake)

\* the spawn of the Small field
SmallSpawn == <<Point(5, 7), Point(5, 6), Point(5, 5)>>

\* C9: on the Small field reset_game spawns the snake at (5,7),(5,6),(5,5)
\* heading RIGHT; from there, with the food at (5,8), one applied tick puts
\* the head on (5,8), eats, makes the score 10 and the length 4, and a
\* placement that finds a free cell puts the new food off the snake.
C9_SmallFieldScenario ==
    [][/\ (state = "menu" /\ state' = "playing" /\ settings.field_size = "Small")
          => /\ field_width' = 15
             /\ field_height' = 10
             /\ snake' = SmallSpawn
             /\ direction' = "RIGHT"
             /\ next_direction' = "RIGHT"
       /\ (AppliedTick /\ snake = SmallSpawn /\ next_direction = "RIGHT"
              /\ food = Point(5, 8) /\ score = 0)
          => /\ snake' = <<Point(5, 8)>> \o SmallSpawn
             /\ Len(snake') = 4
             /\ score' = 10
             /\ foods_eaten' = 1
             /\ ~game_over'
             /\ placed_last' => (food' \notin Range(snake') /\ food' # Point(5, 8))]_vars

\* C9 witness: the first tick has eaten the food at (5,8) and the new food
\* is elsewhere, off the snake.
C9_Witness ==
    /\ settings.field_size = "Small"
    /\ current_session # <<>>
    /\ current_session[1].moves_made = 1
    /\ snake = <<Point(5, 8)>> \o SmallSpawn
    /\ score = 10
    /\ direction = "RIGHT"
    /\ placed_last
    /\ food \notin Range(snake)

\* C10: update_game_logic called while paused, after game over, or before
\* current_speed ms have passed since the last applied tick changes none
\* of snake, food, direction, next_direction, score, foods_eaten,
\* current_speed, last_update_time, the session (moves_made) and state.
C10_EarlyReturnNoOp ==
    [][(update_game_logic(now')
          /\ (paused \/ game_over \/ now' - last_update_time < current_speed))
          => UNCHANGED <<snake, food, direction, next_direction, score,
                         foods_eaten, current_speed, last_update_time,
                         current_session, state>>]_vars

\* C10 witness: frames have run during a pause until a tick was overdue,
\* and no move was made.
C10_Witness ==
    /\ state = "playing"
    /\ paused
    /\ current_session[1].moves_made = 1
    /\ now - last_update_time >= current_speed
    /\ snake[1] = PointAdd(snake[2], direction)
    /\ snake[2] = StartSnake(field_width, field_height)[1]

\* C7: after N calls of add_score on an empty store the ledger has
\* min(N, 50) entries, each one an inserted score, in descending order of
\* score with equal scores in insertion order, and every entry left out
\* ranks below every entry kept (a lower score, or the same score inserted
\* later).
C7_LedgerTopK ==
    LET ledger == load_scores(scores_file)
        N == Len(inserted)
        kept == {ledger[i].moves_made : i \in 1..Len(ledger)}
    IN  /\ Len(ledger) = Min(N, 50)
        /\ \A i \in 1..Len(ledger) :
              /\ ledger[i].moves_made \in 1..N
              /\ ledger[i].score = inserted[ledger[i].moves_made]
        /\ \A i, j \in 1..Len(ledger) :
              i < j =>
                \/ ledger[i].score > ledger[j].score
                \/ /\ ledger[i].score = ledger[j].score
                   /\ ledger[i].moves_made < ledger[j].moves_made
        /\ \A n \in (1..N) \ kept :
              \A i \in 1..Len(ledger) :
                \/ ledger[i].score > inserted[n]
                \/ /\ ledger[i].score = inserted[n]
                   /\ ledger[i].moves_made < n

\* C7 witness: 52 scores inserted, 50 kept, and the score at the cut-off
\* is also the score of an entry left out, while a higher score inserted
\* after the ledger was full is in it.
C7_Witness ==
    LET ledger == load_scores(scores_file)
    IN  /\ Len(inserted) = 52
        /\ Len(ledger) = 50
        /\ \E n \in 1..52 :
              /\ \A i \in 1..50 : ledger[i].moves_made # n
              /\ inserted[n] = ledger[50].score
        /\ \E i \in 1..50 :
              /\ ledger[i].moves_made > 50
              /\ ledger[i].score > ledger[50].score

\* C8: from_dict(to_dict(s)) is s; and from_dict of a mapping that has
\* unknown keys or lacks known ones raises nothing and gives a record
\* whose fields are the values of the known keys present and the defaults
\* of the others.
C8_SettingsRoundTrip ==
    /\ from_dict(to_dict(settings)).ok
    /\ from_dict(to_dict(settings)).value = settings
    /\ loaded.from = to_dict(settings) => loaded.value = settings
    /\ loaded.ok
    /\ DOMAIN loaded.value = KnownFields
    /\ \A k \in KnownFields :
          loaded.value[k] =
             IF k \in DOMAIN loaded.from THEN loaded.from[k] ELSE DefaultSettings[k]

\* C8 witness: a mapping with an unknown key and without a known key,
\* whose saved value was not the default, has been read: that field is
\* back at its default and another one kept its saved, non-default value.
C8_Witness ==
    /\ "language" \in DOMAIN loaded.from
    /\ \E k \in KnownFields \ DOMAIN loaded.from :
          /\ settings[k] # DefaultSettings[k]
          /\ loaded.value[k] = DefaultSettings[k]
    /\ \E k \in KnownFields \cap DOMAIN loaded.from :
          /\ loaded.value[k] # DefaultSettings[k]
          /\ loaded.value[k] = settings[k]

\* C14: menu_index is always in 0..3; in MENU, 'up' and 'down' move it by
\* -1 and +1 modulo 4 and leave the state alone; 'select' on index 0 resets
\* the engine and enters PLAYING, on index 1 enters SETTINGS with
\* settings_index 0, on index 2 enters HIGH_SCORES, and on index 3, and
\* only there, returns True, the state unchanged.
C14_MenuNavigation ==
    /\ [](menu_index \in 0..3)
    /\ [][\A action \in NavActions :
            (state = "menu" /\ handle_menu_navigation(action)) =>
               /\ action = "up" =>
                     /\ menu_index' = (IF menu_index = 0 THEN 3 ELSE menu_index - 1)
                     /\ state' = "menu"
               /\ action = "down" =>
                     /\ menu_index' = (IF menu_index = 3 THEN 0 ELSE menu_index + 1)
                     /\ state' = "menu"
               /\ (action = "select" /\ menu_index = 0) =>
                     /\ state' = "playing"
                     /\ games' = games + 1
                     /\ snake' = StartSnake(field_width', field_height')
                     /\ score' = 0
                     /\ ~game_over'
                     /\ current_session' # <<>>
               /\ (action = "select" /\ menu_index = 1) =>
                     /\ state' = "settings"
                     /\ settings_index' = 0
               /\ (action = "select" /\ menu_index = 2) => state' = "high_scores"
               /\ (action = "select" /\ menu_index = 3) => state' = "menu"
               /\ (ret' = "True") <=> (action = "select" /\ menu_index = 3)]_vars

\* C14 witness: 'up' has wrapped from 0 to 3 and 'select' there has
\* returned the exit signal, after a visit to the settings screen that was
\* left on an item other than the first.
C14_Witness ==
    /\ state = "menu"
    /\ menu_index = 3
    /\ ret = "True"
    /\ settings_index = 8
    /\ settings_file.exists

\* C15: settings_index is always in 0..8; in SETTINGS, 'up' and 'down'
\* move it by -1 and +1 modulo 9; 'select' on index 8 writes the current
\* settings to storage and returns to MENU; 'back' returns to MENU and
\* writes nothing; any other input writes nothing and stays in SETTINGS.
C15_SettingsNavigation ==
    /\ [](settings_index \in 0..8)
    /\ [][\A action \in NavActions :
            (state = "settings" /\ handle_settings_navigation(action)) =>
               /\ action = "up" =>
                     settings_index' = (IF settings_index = 0 THEN 8
                                        ELSE settings_index - 1)
               /\ action = "down" =>
                     settings_index' = (IF settings_index = 8 THEN 0
                                        ELSE settings_index + 1)
               /\ (action = "select" /\ settings_index = 8) =>
                     /\ settings_file' = FileOf(to_dict(settings))
                     /\ settings' = settings
                     /\ state' = "menu"
               /\ action = "back" =>
                     /\ state' = "menu"
                     /\ settings_file' = settings_file
               /\ (action # "back" /\ ~(action = "select" /\ settings_index = 8)) =>
                     /\ state' = "settings"
                     /\ settings_file' = settings_file]_vars

\* C15 witness: a changed setting was saved through the last item, then
\* another change was made and the screen left with 'back': the storage
\* still holds what was saved and differs from the current settings.
C15_Witness ==
    /\ state = "menu"
    /\ settings_file.exists
    /\ settings_file.data # to_dict(DefaultSettings)
    /\ settings = DefaultSettings
    /\ settings_index = 1

\* C17 as stated: every input in HIGH_SCORES takes the state to MENU (in
\* SpecNav every step taken in HIGH_SCORES is an input handed to a handler).
C17_Original == [][state = "high_scores" => state' = "menu"]_vars

\* C11: handle_direction_input(d) called while the game is paused or over
\* returns False and leaves direction and next_direction alone, for every
\* direction d, the non-opposite ones included.
C11_BlockedDirectionInput ==
    [][\A d \in Directions :
          (handle_direction_input(d) /\ (paused \/ game_over))
             => /\ ret' = "False"
                /\ direction' = direction
                /\ next_direction' = next_direction]_vars

\* C11 witness: in a game that had been paused and resumed, a direction was
\* handed in after the game was over and refused.
C11_Witness ==
    /\ game_over
    /\ state = "name_input"
    /\ ret = "False"
    /\ next_direction = direction
    /\ current_session[1].pauses_count = 2

\* a step of one of the calls C12 names
TickOrSteerOrPause ==
    \/ update_game_logic(now')
    \/ \E d \in Directions : handle_direction_input(d)
    \/ toggle_pause

\* C12: the step that sets game_over also sets the state to NAME_INPUT;
\* once the game is over no tick, direction input or pause toggle changes
\* snake, food, score, foods_eaten or game_over (only reset_game does); and
\* in every state, state = PLAYING implies that the game is not over.
C12_GameOverTerminal ==
    /\ [](state = "playing" => ~game_over)
    /\ [][/\ (~game_over /\ game_over') => state' = "name_input"
          /\ (game_over /\ TickOrSteerOrPause)
                => UNCHANGED <<snake, food, score, foods_eaten, game_over>>
          /\ (game_over /\ ~game_over') => games' = games + 1]_vars

\* C12 witness: a game that ended with a score was recorded, and a new game
\* has been started from the menu.
C12_Witness ==
    /\ games = 2
    /\ state = "playing"
    /\ ~game_over
    /\ Len(inserted) = 1
    /\ inserted[1] = 10
    /\ score = 0

\* the variables toggle_pause never assigns (ret is its return value)
AllButPause ==
    <<state, settings, menu_index, settings_index, field_width, field_height,
      snake, food, direction, next_direction, score, game_over, player_name,
      current_speed, last_update_time, last_speed_increase, foods_eaten,
      settings_file, scores_file, now>>

\* C18: toggle_pause flips paused and adds exactly 1 to the session's
\* pauses_count when the state is PLAYING and the game is not over, and
\* changes nothing in every other situation; and a tick made while paused
\* does not move the snake.
C18_PauseToggle ==
    [][/\ toggle_pause =>
             /\ IF state = "playing" /\ ~game_over
                THEN /\ paused' = ~paused
                     /\ current_session'[1] =
                           [current_session[1] EXCEPT !.pauses_count = @ + 1]
                ELSE /\ paused' = paused
                     /\ current_session' = current_session
             /\ UNCHANGED AllButPause
       /\ (paused /\ update_game_logic(now')) =>
             /\ snake' = snake
             /\ current_session' = current_session]_vars

\* C18 witness: the game was paused, frames went by without a move, and a
\* second toggle has resumed it.
C18_Witness ==
    /\ state = "playing"
    /\ ~paused
    /\ current_session[1].pauses_count = 2
    /\ current_session[1].moves_made = 1
    /\ now - last_update_time > current_speed

\* C19: a step that calls reset_game, from any state and for every field
\* preset, leaves a snake of length 3, horizontal, its head at
\* (height // 2, width // 2) and the two other cells to its left, all inside
\* the field of the preset of the settings; direction and next_direction
\* RIGHT; score and foods_eaten 0; paused and game_over false; current_speed
\* equal to settings.initial_speed; and a fresh session with the field_size
\* and difficulty of the settings, moves_made 0 and pauses_count 0.
C19_ResetGame ==
    [][games' = games + 1 =>
          LET w == FIELD_SIZES[settings.field_size].width
              h == FIELD_SIZES[settings.field_size].height
          IN  /\ field_width' = w
              /\ field_height' = h
              /\ Len(snake') = 3
              /\ snake'[1] = Point(h \div 2, w \div 2)
              /\ snake'[2] = Point(h \div 2, (w \div 2) - 1)
              /\ snake'[3] = Point(h \div 2, (w \div 2) - 2)
              /\ \A i \in 1..3 :
                    /\ snake'[i].y \in 0..(h - 1)
                    /\ snake'[i].x \in 0..(w - 1)
              /\ direction' = "RIGHT"
              /\ next_direction' = "RIGHT"
              /\ score' = 0
              /\ foods_eaten' = 0
              /\ ~paused'
              /\ ~game_over'
              /\ current_speed' = settings.initial_speed
              /\ Len(current_session') = 1
              /\ current_session'[1].field_size = settings.field_size
              /\ current_session'[1].difficulty = settings.difficulty
              /\ current_session'[1].moves_made = 0
              /\ current_session'[1].pauses_count = 0
              /\ current_session'[1].start_time = now]_vars

\* C19 witness: a second game was started on the Classic field at the Hard
\* speed straight from a first game that was paused with a food eaten and
\* the snake turned.
C19_Witness ==
    /\ games = 2
    /\ state = "playing"
    /\ settings.field_size = "Classic"
    /\ current_speed = 100
    /\ inserted = <<>>
    /\ current_session[1].start_time > 1000
    /\ snake = StartSnake(25, 18)
    /\ direction = "RIGHT"

\* a list without its i-th element
Removed(list, i) == SubSeq(list, 1, i - 1) \o SubSeq(list, i + 1, Len(list))

\* a name buffer that is empty or holds whitespace only
Blank(name) == \A k \in 1..Len(name) : name[k] \in Whitespace

\* C13 as stated: in NAME_INPUT both 'enter' and 'skip' add exactly one
\* entry to the ledger, carrying the score of the session, clear the name
\* buffer and set the state to MENU; the entry of 'skip' has the placeholder
\* name whatever the buffer holds, and so has the entry of 'enter' when the
\* buffer is empty or whitespace only.
C13_Original ==
    [][\A action \in {"enter", "skip"} :
          (state = "name_input" /\ handle_name_input(action, "")) =>
             LET old == load_scores(scores_file)
                 new == load_scores(scores_file')
             IN  /\ Len(new) = Len(old) + 1
                 /\ \E i \in 1..Len(new) :
                       /\ Removed(new, i) = old
                       /\ new[i].score = score
                       /\ (action = "skip" \/ Blank(player_name))
                             => new[i].name = Anonymous
                 /\ player_name' = <<>>
                 /\ state' = "menu"]_vars

\* C13 amended: both 'enter' and 'skip' hand the score of the session to
\* add_score exactly once, clear the name buffer and set the state to MENU.
\* A ledger of fewer than 50 entries gains exactly one entry, with that
\* score, under the placeholder name for 'skip' and for 'enter' with an
\* empty or whitespace-only buffer; a ledger of 50 entries stays at 50: the
\* entry takes the place of the last one when its score is higher than
\* that one's, and is not stored otherwise.
C13_NameInputFinalizes ==
    [][\A action \in {"enter", "skip"} :
          (state = "name_input" /\ handle_name_input(action, "")) =>
             LET old == load_scores(scores_file)
                 new == load_scores(scores_file')
                 kept == IF Len(old) < 50 THEN old ELSE SubSeq(old, 1, 49)
                 stored == \E i \in 1..Len(new) :
                              /\ Removed(new, i) = kept
                              /\ new[i].score = score
                              /\ (action = "skip" \/ Blank(player_name))
                                    => new[i].name = Anonymous
             IN  /\ inserted' = Append(inserted, score)
                 /\ IF Len(old) < 50 THEN Len(new) = Len(old) + 1 /\ stored
                    ELSE IF score > old[50].score THEN Len(new) = 50 /\ stored
                    ELSE new = old
                 /\ player_name' = <<>>
                 /\ state' = "menu"]_vars

\* C13 witness: the full ledger has taken a game of score 20, recorded
\* under the placeholder name, in place of its last entry.
C13_Witness ==
    /\ state = "menu"
    /\ player_name = <<>>
    /\ inserted = <<20>>
    /\ Len(load_scores(scores_file)) = 50
    /\ load_scores(scores_file)[1].score = 20
    /\ load_scores(scores_file)[1].name = Anonymous
    /\ load_scores(scores_file)[50] = FullScores[49]

\* C16 as stated: on the settings screen of snake_premium, entered at
\* settings_index 0, the save-and-leave item is reached by pressing up or
\* down (walking down the list is enough, the list being cyclic), and Enter
\* on it writes the settings and returns to MENU.
C16_Original ==
    /\ (state = "settings") ~> (state = "settings" /\ settings_index = PremiumSaveItem)
    /\ [][(PremiumSettingsKey("enter") /\ settings_index = PremiumSaveItem)
             => (settings_file' = FileOf(settings) /\ state' = "menu")]_vars

\* C20: with the initial speed of any of the four difficulties (200, 150,
\* 100, 60 ms) current_speed is never below 40 ms, however many foods were
\* eaten and time-based steps taken; a food lowers it by 3 down to 40, a
\* time-based step by 10 down to 50.
C20_SpeedFloor ==
    /\ [](settings.initial_speed \in {200, 150, 100, 60} => current_speed >= 40)
    /\ [][AppliedTick =>
             /\ current_speed' >= 40
             /\ current_speed' >= current_speed - 13
             /\ current_speed' <= 200]_vars

\* C20 witness: a game started at 60 ms has taken the time-based step and
\* eaten four foods, the last of which met the floor of 40 ms.
C20_Witness ==
    /\ settings.initial_speed = 60
    /\ state = "playing"
    /\ foods_eaten = 4
    /\ last_speed_increase > 0
    /\ current_speed = 40

\* C21: within one session the tick interval only ever decreases or stays
\* equal: current_speed after an applied tick is at most current_speed
\* before it, the ticks on which the 30-second step is taken after foods
\* have lowered the interval included.
C21_Original ==
    [][AppliedTick => current_speed' <= current_speed]_vars

\* the field in use is the one of the preset named by settings.field_size
FieldOfSettings ==
    /\ field_width = FIELD_SIZES[settings.field_size].width
    /\ field_height = FIELD_SIZES[settings.field_size].height

\* C22 as stated: in every reachable state, also right after 'select' has
\* cycled the field-size item in SETTINGS, (field_width, field_height) are
\* the width and height of the preset named by settings.field_size.
C22_Original == FieldOfSettings

\* C22: the field is recomputed by reset_game, not when the settings change:
\* 'select' on the field-size item in SETTINGS moves settings.field_size to
\* the next preset and leaves field_width and field_height as they were; a
\* step that calls reset_game makes them those of the preset of the
\* settings; and whenever the state is PLAYING they are those of the preset.
C22_FieldDimensions ==
    /\ [](state = "playing" => FieldOfSettings)
    /\ [][/\ (SettingsInput("select") /\ settings_index = 1)
                => /\ settings'.field_size = NextOf(FieldSizeNames, settings.field_size)
                   /\ UNCHANGED <<field_width, field_height>>
          /\ games' = games + 1 => FieldOfSettings']_vars

\* C22 witness: the field size was moved from Medium to Large in SETTINGS
\* and a game was then started, on the Large field.
C22_Witness ==
    /\ state = "playing"
    /\ games = 1
    /\ settings.field_size = "Large"
    /\ field_width = 30
    /\ field_height = 20

\* a step in which the session is finalized from NAME_INPUT
Finalizes == \E action \in {"enter", "skip"} : NameInput(action, "a")

\* a step in which 'save and exit' is selected in SETTINGS
SavesAndExits == SettingsInput("select") /\ SelectSaves(settings_index)

\* C23 as stated: load_scores gives an empty ledger when the store is absent
\* or unreadable; when a save fails no error propagates, finish_game_session
\* still clears the name buffer and returns to MENU, 'save & exit' still
\* returns to MENU, and the stored data is left as it was before the write.
C23_Original ==
    [][/\ (Finalizes /\ ~(scores_file.exists /\ scores_file.intact) /\ disk = "ok")
             => Len(scores_file'.data) = 1
       /\ (Finalizes /\ disk # "ok")
             => /\ ret' = "None"
                /\ player_name' = <<>>
                /\ state' = "menu"
                /\ scores_file' = scores_file
       /\ (SavesAndExits /\ disk # "ok")
             => /\ ret' = "None"
                /\ state' = "menu"
                /\ settings_file' = settings_file]_vars

\* C23: load_scores gives an empty ledger when the store is absent or holds
\* no JSON document, so that the ledger saved next has one entry; when a
\* save fails no error propagates, finish_game_session still clears the
\* name buffer and returns to MENU and 'save & exit' still returns to MENU;
\* the stored file is left as it was when it could not be opened, and is
\* left emptied, no JSON document any more, when the write failed after
\* the file had been opened.
C23_PersistenceFailures ==
    [][/\ (Finalizes /\ ~(scores_file.exists /\ scores_file.intact) /\ disk = "ok")
             => Len(scores_file'.data) = 1
       /\ (Finalizes /\ disk # "ok")
             => /\ ret' = "None"
                /\ player_name' = <<>>
                /\ state' = "menu"
                /\ disk = "denied" => scores_file' = scores_file
                /\ disk = "full" => (scores_file' = Truncated /\ load_scores(scores_file') = <<>>)
       /\ (SavesAndExits /\ disk # "ok")
             => /\ ret' = "None"
                /\ state' = "menu"
                /\ disk = "denied" => settings_file' = settings_file
                /\ disk = "full" =>
                      /\ settings_file' = Truncated
                      /\ load_settings(settings_file') = DefaultSettings]_vars

\* C23 witness: the save of the settings failed for want of space, then a
\* game with a score was finalized under a typed name while
\* the scores file of the earlier run could not be opened for writing.
C23_Witness ==
    /\ state = "menu"
    /\ games = 1
    /\ inserted = <<10>>
    /\ player_name = <<>>
    /\ disk = "denied"
    /\ scores_file = FileOf(EarlierScores)
    /\ settings_file = Truncated

\* C24: loading the stored settings always yields a usable configuration and
\* no error ever surfaces: a stored field_size or difficulty that is not one
\* of the known names is replaced by the defaults, and the construction of
\* the engine, reset_game and every later 'select' in SETTINGS complete
\* without an error.
C24_Original ==
    /\ ret \notin Errors
    /\ settings.field_size \in Range(FieldSizeNames)
    /\ settings.difficulty \in Range(difficulties)

\* the values of GameState the engine assigns to state
ActiveStates == {"menu", "playing", "settings", "high_scores", "name_input"}

\* every input of the current state's handler has an effect that is defined
HandlerTotal ==
    /\ state = "menu" => \A action \in NavActions : ENABLED MenuInput(action)
    /\ state = "settings" => \A action \in NavActions : ENABLED SettingsInput(action)
    /\ state = "playing" =>
          /\ \A d \in Directions : ENABLED DirectionInput(d)
          /\ ENABLED (state = "playing" /\ toggle_pause)
    /\ state = "name_input" =>
          \A action \in {"char", "backspace", "enter", "skip"} :
              ENABLED handle_name_input(action, "a")

FoodLoopLeft == placed_last \/ ~WithinAttempts(attempts)

\* C26: place_food terminates after at most 100 draws for every snake and
\* field, a snake that fills the field included: the loop is left in the
\* end, it never makes more than 100 draws, and it raises no error.
C26_PlaceFoodTerminates ==
    /\ [](attempts + (IF placed_last THEN 1 ELSE 0) <= 100)
    /\ [](ret \notin Errors)
    /\ <>FoodLoopLeft

\* C26 witness: on a field filled by the snake all 100 draws were made and
\* the loop was left without a free cell.
C26_Witness ==
    /\ Len(snake) = field_width * field_height
    /\ attempts = 100
    /\ ~placed_last
    /\ FoodLoopLeft

\* C28: when all 100 draws of place_food land on the snake the placement is
\* still accepted, the food going to a newly drawn cell instead of staying
\* where it was: after a tick that eats, the food is not on the cell just
\* eaten, which is now the head of the snake.
C28_Original ==
    [][(AppliedTick /\ foods_eaten' = foods_eaten + 1) => food' # snake'[1]]_vars

\* C27: in the mobile demo leaving the field never ends or resets the game:
\* update_game wraps the new head modulo the size of the field, so that in
\* every state every snake cell (x, y) has 0 <= x < field_width and
\* 0 <= y < field_height; and reset_game is called only by a tick whose new
\* head, after the wrap, is a cell of the snake; a tick that leaves the field
\* onto a free cell puts the head there and resets nothing.
C27_DemoWraps ==
    /\ [](\A i \in 1..Len(snake) :
            /\ snake[i].x \in 0..(field_width - 1)
            /\ snake[i].y \in 0..(field_height - 1))
    /\ [][games' # games =>
             LET m == DemoMoved(snake[1], direction)
             IN  Point(m.y % field_height, m.x % field_width) \in Range(snake)]_vars
    /\ [][(/\ DemoTick
            /\ ~InField(DemoMoved(snake[1], direction), field_width, field_height)
            /\ DemoNewHead \notin Range(snake))
             => (games' = games /\ snake'[1] = DemoNewHead)]_vars

\* C27 witness: the snake has left the field through the lower edge and come
\* back in at the upper one, without a reset.
C27_Witness ==
    /\ games = 0
    /\ snake[1].y = field_height - 1
    /\ snake[2].y = 0
    /\ direction = "down"

\* the direction of the last move, read off the first two cells of the snake
DemoHeading ==
    CHOOSE d \in DemoDirections :
        LET m == DemoMoved(snake[2], d)
        IN  snake[1] = Point(m.y % field_height, m.x % field_width)

\* C29: however many change_direction calls arrive between two ticks, the
\* direction the next tick uses is never the opposite of the direction the
\* previous tick used, so the head never moves onto the second cell of the
\* snake.
C29_Original ==
    [][DemoTick =>
          /\ direction # DemoOpposite(DemoHeading)
          /\ DemoMoved(snake[1], direction) # snake[2]]_vars

\* the settings after four consecutive selects on an item of the settings
\* list of the program that is running
FourSelects(s, index) ==
    LET sel(r) == IF IsPremium THEN PremiumSelectedSettings(r, index)
                  ELSE SelectedSettings(r, index)
    IN  sel(sel(sel(sel(s))))

\* C30: in the core engine and in snake_premium alike, started from the
\* default settings, after any sequence of inputs on the settings screen
\* settings.initial_speed is the speed bound to settings.difficulty (core
\* engine: Easy 200, Medium 150, Hard 100, Extreme 60; snake_premium: its own
\* `speeds` table); a select on the difficulty item moves the difficulty
\* Easy -> Medium -> Hard -> Extreme -> Easy; and four consecutive selects on
\* the difficulty item, or on the field-size item, give the settings record
\* back.
C30_DifficultyBound ==
    /\ [](settings.initial_speed =
            IF IsPremium THEN premium_speeds[settings.difficulty]
            ELSE CASE settings.difficulty = "Easy" -> 200
                   [] settings.difficulty = "Medium" -> 150
                   [] settings.difficulty = "Hard" -> 100
                   [] settings.difficulty = "Extreme" -> 60)
    /\ [][settings'.difficulty # settings.difficulty =>
             /\ state = "settings" /\ settings_index = 0
             /\ settings'.difficulty =
                  CASE settings.difficulty = "Easy" -> "Medium"
                    [] settings.difficulty = "Medium" -> "Hard"
                    [] settings.difficulty = "Hard" -> "Extreme"
                    [] settings.difficulty = "Extreme" -> "Easy"]_vars
    /\ [](\A index \in {0, 1} :
            /\ FourSelects(settings, index) = settings
            /\ (IF IsPremium THEN PremiumSelectedSettings(settings, index)
                ELSE SelectedSettings(settings, index)) # settings)

\* C30 witness: on the settings screen of the core engine the difficulty has
\* been moved to Extreme, with speed 60, and the field size to Small.
C30_Witness ==
    /\ ~IsPremium
    /\ state = "settings"
    /\ settings.difficulty = "Extreme"
    /\ settings.initial_speed = 60
    /\ settings.field_size = "Small"

\* C31: once finish_game_session has folded the session into a ledger entry
\* the session is discarded: outside a game (in MENU, SETTINGS or
\* HIGH_SCORES) there is no current session until the next reset_game, so the
\* same session cannot be folded a second time.
C31_Original ==
    /\ state \in {"menu", "settings", "high_scores"} => current_session = <<>>
    /\ inserted # <<>> /\ state = "menu" => current_session = <<>>

\* C32: place_food of snake_game.py returns for every snake, a snake that
\* has just eaten the last free cell and fills the field included: the loop
\* is left in the end.
C32_Original == <>placed_last

\* C33: in snake_game.py every food eaten lowers the input timeout by 2 ms
\* from its current value, down to 50 ms: after n foods in one game (the
\* score is 10 n) the timeout is max(50, 150 - 2 n), and a restart sets it
\* back to 150.
C33_Original ==
    /\ current_speed = Max(50, 150 - 2 * (score \div 10))
    /\ score = 10 * (Len(snake) - 3)

\* C34: in modern_snake.py the settings survive a save and a load, and a
\* stored mapping with an unknown key is loaded with the key ignored and the
\* values of the known keys applied: from_dict(to_dict(s)) = s for every
\* settings record s, field_size and timer_mode included, and a start that
\* finds a file with an unknown key takes each known key's value from it.
C34_Original ==
    /\ [](modern_from_dict(modern_to_dict(settings)).value = settings)
    /\ [][(ModernStart /\ settings_file.exists) =>
             \A k \in (DOMAIN settings_file.data) \cap ModernFields :
                 settings'[k] = settings_file.data[k]]_vars

\* C35: in every state after a reset all snake cells are pairwise distinct:
\* the body never overlaps itself, after growth and after a fatal tick too.
C35_SnakeDistinct ==
    games >= 1 =>
        \A i, j \in 1..Len(snake) : i # j => snake[i] # snake[j]

\* C35 witness: a snake grown to five cells has run into its own body and
\* the game is over.
C35_Witness ==
    /\ game_over
    /\ Len(snake) = 5
    /\ NextHead \in Range(SubSeq(snake, 2, Len(snake) - 1))

\* C36: in every state after a reset every snake cell and the food cell lie
\* inside the field, 0 <= row < field_height and 0 <= col < field_width,
\* whatever the preset and the inputs.
C36_Original ==
    games >= 1 =>
        /\ \A i \in 1..Len(snake) : InField(snake[i], field_width, field_height)
        /\ InField(food, field_width, field_height)

\* C37: in every state after a reset the score is ten times the foods eaten
\* and the snake has three cells more than foods were eaten (it never
\* shrinks and never has fewer than three cells), whatever the pauses and
\* also when a food placement found no free cell.
C37_ScoreAndLength ==
    /\ [](games >= 1 =>
            /\ score = 10 * foods_eaten
            /\ Len(snake) = 3 + foods_eaten
            /\ Len(snake) >= 3)
    /\ [][games' = games => Len(snake') >= Len(snake)]_vars

\* C37 witness: two foods were eaten in a session that was paused once and
\* in which a placement found no free cell.
C37_Witness ==
    /\ foods_eaten = 2
    /\ score = 20
    /\ Len(snake) = 5
    /\ ~placed_ok
    /\ current_session # <<>>
    /\ current_session[1].pauses_count >= 1

\* the fatal ticks so far: one in every game before the current one, which
\* was started from the menu after the name entry, and one more when the
\* current game is over
FatalTicks == IF games = 0 THEN 0 ELSE games - 1 + (IF game_over THEN 1 ELSE 0)

\* C38: with the inputs routed to the handler of the current state a ledger
\* entry is added only after a game over and at most once per session: the
\* entries added never outnumber the ticks that reported game over, an entry
\* is added only by the name entry of a game that is over, one at a time and
\* the first of its session, and by no menu, settings or in-play input.
C38_EntryPerGameOver ==
    /\ [](Len(inserted) <= FatalTicks)
    /\ [][inserted' # inserted =>
             /\ state = "name_input"
             /\ game_over
             /\ Len(inserted) = games - 1
             /\ Len(inserted') = games]_vars

\* C38 witness: the second game is over and its name entry has not been
\* confirmed yet; the ledger has the one entry of the first game.
C38_Witness ==
    /\ games = 2
    /\ state = "name_input"
    /\ game_over
    /\ Len(inserted) = 1

\* both processes have returned from add_score
BothDone == \A w \in WriterIds : writers.of[w].pc = "done"

\* the ledger after the two add_score calls made one after the other
OneAfterTheOther ==
    add_score_local(add_score_local(writers.start, writers.of[1].entry),
                    writers.of[2].entry)

SortedDesc(list) == \A i \in 1..(Len(list) - 1) : list[i].score >= list[i + 1].score

\* C39: when two sessions that share the score store each call add_score,
\* however their load and save steps interleave, the ledger stored in the end
\* is sorted descending, holds at most 50 entries, and holds both new
\* entries whenever both rank within the top 50: no added score is lost.
C39_Original ==
    BothDone =>
        /\ scores_file.exists /\ scores_file.intact
        /\ SortedDesc(scores_file.data)
        /\ Len(scores_file.data) <= 50
        /\ (\A w \in WriterIds : writers.of[w].entry \in Range(OneAfterTheOther))
              => \A w \in WriterIds : writers.of[w].entry \in Range(scores_file.data)

\* C40: a session left alone always ends.  After reset_game, with no
\* direction input and no pause and the driver calling the tick as time
\* advances, the snake moves straight RIGHT along its row and the engine
\* reaches game_over with the state NAME_INPUT, after exactly
\* field_width - field_width // 2 applied ticks, whether or not food is
\* eaten on the way.
C40_LeftAloneEnds ==
    /\ (state = "playing") ~> (game_over /\ state = "name_input")
    /\ [](game_over =>
            /\ state = "name_input"
            /\ current_session[1].moves_made = field_width - (field_width \div 2))
    /\ [](games >= 1 =>
            /\ direction = "RIGHT"
            /\ \A i \in 1..Len(snake) : snake[i].y = field_height \div 2)

\* C40 witness: on the Large field the snake, left alone, has eaten a food
\* on its way and hit the wall with its fifteenth tick.
C40_Witness ==
    /\ game_over
    /\ state = "name_input"
    /\ field_width = 30
    /\ foods_eaten >= 1
    /\ current_session[1].moves_made = 15

====
